---- MODULE Spec2Model ----
(***************************************************************************)
(* EncodingConverter (src/EncodingConverter.h): batch detection and        *)
(* in-place conversion of text file encodings, in a concurrent variant     *)
(* (convert) and a sequential one (convert_single).                        *)
(*                                                                         *)
(* std::string values are sequences of one-character strings, so that      *)
(* tolower, concatenation and pattern matching are computed, not assumed.  *)
(***************************************************************************)
EXTENDS Integers, Sequences, FiniteSets, TLC

\* ------------------------------------------------------------------------
\* Bounds
\* ------------------------------------------------------------------------
\* Largest number of directory entries the scan of one run visits.
MaxEntries == 2

\* ------------------------------------------------------------------------
\* Strings
\* ------------------------------------------------------------------------
UpperChars == <<"A","B","C","D","E","F","G","H","I","J","K","L","M",
                "N","O","P","Q","R","S","T","U","V","W","X","Y","Z">>
LowerChars == <<"a","b","c","d","e","f","g","h","i","j","k","l","m",
                "n","o","p","q","r","s","t","u","v","w","x","y","z">>

\* ::tolower on one character (C locale)
LowerOf ==
    [c \in { UpperChars[i] : i \in 1..26 } |->
        LowerChars[CHOOSE i \in 1..26 : UpperChars[i] = c]]

tolower(c) == IF c \in DOMAIN LowerOf THEN LowerOf[c] ELSE c

\* std::transform(s.begin(), s.end(), s.begin(), ::tolower)
ToLowerStr(s) == [i \in 1..Len(s) |-> tolower(s[i])]

\* string literals of the source
S_empty       == << >>
S_UNKNOWN     == <<"U","N","K","N","O","W","N">>
S_MISMATCH    == <<"M","I","S","M","A","T","C","H">>
S_windows1252 == <<"w","i","n","d","o","w","s","-","1","2","5","2">>
S_windows1252a == <<"w","i","n","d","o","w","s","1","2","5","2">>
S_iso88591    == <<"i","s","o","-","8","8","5","9","-","1">>
S_iso88591a   == <<"i","s","o","8","8","5","9","-","1">>
S_ISO88591    == <<"I","S","O","-","8","8","5","9","-","1">>
S_utf8        == <<"u","t","f","-","8">>
S_utf8a       == <<"u","t","f","8">>
S_UTF8        == <<"U","T","F","-","8">>
S_gbk         == <<"g","b","k">>
S_GBK         == <<"G","B","K">>
S_gb18030     == <<"g","b","1","8","0","3","0">>
S_GB18030     == <<"G","B","1","8","0","3","0">>
S_ascii       == <<"a","s","c","i","i">>
S_ASCII       == <<"A","S","C","I","I">>
S_big5        == <<"b","i","g","5">>
S_Big5        == <<"B","i","g","5">>
S_utf16le     == <<"u","t","f","-","1","6","l","e">>
S_utf16lea    == <<"u","t","f","1","6","l","e">>
S_UTF16LE     == <<"U","T","F","-","1","6","L","E">>
S_utf16be     == <<"u","t","f","-","1","6","b","e">>
S_utf16bea    == <<"u","t","f","1","6","b","e">>
S_UTF16BE     == <<"U","T","F","-","1","6","B","E">>

\* ------------------------------------------------------------------------
\* mapEncodingName
\* ------------------------------------------------------------------------
\* a lookup that compares the name as given, without lower-casing it
mapEncodingName_CaseSensitive(encoding) ==
    IF encoding = S_windows1252 \/ encoding = S_windows1252a THEN S_windows1252
    ELSE IF encoding = S_iso88591 \/ encoding = S_iso88591a THEN S_ISO88591
    ELSE IF encoding = S_utf8 \/ encoding = S_utf8a THEN S_UTF8
    ELSE IF encoding = S_gbk THEN S_GBK
    ELSE IF encoding = S_gb18030 THEN S_GB18030
    ELSE IF encoding = S_ascii THEN S_ASCII
    ELSE IF encoding = S_big5 THEN S_Big5
    ELSE IF encoding = S_utf16le \/ encoding = S_utf16lea THEN S_UTF16LE
    ELSE IF encoding = S_utf16be \/ encoding = S_utf16bea THEN S_UTF16BE
    ELSE encoding

mapEncodingName(encoding) ==
    IF encoding = S_empty THEN encoding
    ELSE LET lowerEncoding == ToLowerStr(encoding) IN
         IF lowerEncoding = S_windows1252 \/ lowerEncoding = S_windows1252a
            THEN S_windows1252
         ELSE IF lowerEncoding = S_iso88591 \/ lowerEncoding = S_iso88591a
            THEN S_ISO88591
         ELSE IF lowerEncoding = S_utf8 \/ lowerEncoding = S_utf8a THEN S_UTF8
         ELSE IF lowerEncoding = S_gbk THEN S_GBK
         ELSE IF lowerEncoding = S_gb18030 THEN S_GB18030
         ELSE IF lowerEncoding = S_ascii THEN S_ASCII
         ELSE IF lowerEncoding = S_big5 THEN S_Big5
         ELSE IF lowerEncoding = S_utf16le \/ lowerEncoding = S_utf16lea
            THEN S_UTF16LE
         ELSE IF lowerEncoding = S_utf16be \/ lowerEncoding = S_utf16bea
            THEN S_UTF16BE
         ELSE encoding

\* the names the if-chain of mapEncodingName recognises, lower-cased
RegistryAliases ==
    { S_windows1252, S_windows1252a, S_iso88591, S_iso88591a, S_utf8, S_utf8a,
      S_gbk, S_gb18030, S_ascii, S_big5, S_utf16le, S_utf16lea,
      S_utf16be, S_utf16bea }

\* "one of the supported registry names or aliases"
InRegistry(encoding) == ToLowerStr(encoding) \in RegistryAliases

\* ------------------------------------------------------------------------
\* std::regex, for the patterns the two filters build
\* ------------------------------------------------------------------------
S_foo   == <<"f","o","o">>
S_EUCJP == <<"E","U","C","-","J","P">>
S_eucjp == <<"e","u","c","j","p">>

\* parentheses of pattern p balance from position i at nesting depth
RECURSIVE ParenScan(_, _, _)
ParenScan(p, i, depth) ==
    IF i > Len(p) THEN depth = 0
    ELSE IF p[i] = "(" THEN ParenScan(p, i + 1, depth + 1)
    ELSE IF p[i] = ")" THEN depth > 0 /\ ParenScan(p, i + 1, depth - 1)
    ELSE ParenScan(p, i + 1, depth)

\* std::regex re(pattern, ECMAScript | icase) throws std::regex_error:
\* over the pattern alphabet used here (letters, digits, '-', '|', '(' , ')')
\* a pattern is malformed exactly when its parentheses do not balance
regex_error(pattern) == ~ParenScan(pattern, 1, 0)

\* the alternatives of a parenthesis-free pattern, split at '|'
RECURSIVE SplitAlt(_, _, _)
SplitAlt(p, i, cur) ==
    IF i > Len(p) THEN {cur}
    ELSE IF p[i] = "|" THEN {cur} \cup SplitAlt(p, i + 1, << >>)
    ELSE SplitAlt(p, i + 1, Append(cur, p[i]))

Alternatives(filter) == SplitAlt(filter, 1, << >>)

\* regex_match(s, "^(" + filter + ")$") with icase, filter an alternation of
\* literals
MatchEncodingFilter(s, filter) ==
    \E alt \in Alternatives(filter) : ToLowerStr(s) = ToLowerStr(alt)

\* the characters the ECMAScript atom '.' does not match
LineTerminators == { "\n", "\r" }

\* regex_match(s, "^.*\\.(" + filter + ")$") with icase, filter an alternation
\* of literals: ".*" takes a prefix free of line terminators, "\\." a dot,
\* the group the rest of the name
MatchFileFilter(s, filter) ==
    \E alt \in Alternatives(filter) :
        \E k \in 1..Len(s) :
            /\ s[k] = "."
            /\ \A q \in 1..(k - 1) : s[q] \notin LineTerminators
            /\ ToLowerStr(SubSeq(s, k + 1, Len(s))) = ToLowerStr(alt)

\* ------------------------------------------------------------------------
\* shouldProcessFile: "true", "false", or "throw" (std::runtime_error
\* "Invalid regex filter")
\* ------------------------------------------------------------------------
\* "^.*\\.(" + filter + ")$"
FilePattern(filter) == <<"^", ".", "*", "\\", ".", "(">> \o filter \o <<")", "$">>

\* a filter that lets every name through
shouldProcessFile_AcceptAll(fileName, filter) == "true"

shouldProcessFile(fileName, filter) ==
    IF filter = S_empty THEN "true"
    ELSE LET regexPattern == FilePattern(filter)
         IN  IF regex_error(regexPattern) THEN "throw"
             ELSE IF ~MatchFileFilter(fileName, filter) THEN "false"
             ELSE "true"

\* ------------------------------------------------------------------------
\* Log records and exceptions
\* ------------------------------------------------------------------------
Log(level, msg) == [level |-> level, msg |-> msg]

\* what() of the std::runtime_error values the source throws
RuntimeErrors ==
    { "Unsupported target encoding", "Invalid path", "Invalid regex filter",
      "Failed to open file", "Failed to initialize uchardet.",
      "Failed to handle data with uchardet.", "ICU conversion failed",
      "Failed to open file for writing" }

\* std::filesystem::filesystem_error raised by recursive_directory_iterator
FilesystemError == "filesystem_error"

\* a handler written for std::logic_error: no exception of the source matches
IsStdException_LogicErrorOnly(e) == FALSE

\* catch (const std::exception& e) matches e
IsStdException(e) == e \in RuntimeErrors \cup {FilesystemError}

\* ------------------------------------------------------------------------
\* uchardet and ICU (external libraries)
\* ------------------------------------------------------------------------
\* const char* returned by uchardet_get_charset
NullPtr == [isNull |-> TRUE, str |-> << >>]
CStr(s) == [isNull |-> FALSE, str |-> s]

\* file bytes: cs is the charset uchardet reports for them, text the text
ZeroBytes == [cs |-> NullPtr, text |-> ""]
Bytes(cs, text) == [cs |-> cs, text |-> text]

\* ICU compares converter names ignoring case and '-', '_', ' '
IcuNorm(name) ==
    LET l == ToLowerStr(name) IN SelectSeq(l, LAMBDA c : c \notin {"-", "_", " "})

IcuConverters ==
    { IcuNorm(S_windows1252), IcuNorm(S_iso88591), IcuNorm(S_utf8),
      IcuNorm(S_gbk), IcuNorm(S_gb18030), IcuNorm(S_ascii), IcuNorm(S_big5),
      IcuNorm(S_utf16le), IcuNorm(S_utf16be), S_eucjp }

\* ucnv_convert: U_FAILURE(status) for an unknown converter name or when
\* the input cannot be converted (env = "icu")
ucnv_fails(from, to, env) ==
    \/ IcuNorm(from) \notin IcuConverters
    \/ IcuNorm(to) \notin IcuConverters
    \/ env = "icu"

\* the bytes ucnv_convert produces: the same text in the target encoding
ucnv_convert(input, from, to) == Bytes(CStr(IcuNorm(to)), input.text)

\* ------------------------------------------------------------------------
\* detectEncoding: [throws, result, log]
\* ------------------------------------------------------------------------
\* "^(" + encodingFilter + ")$"
EncodingPattern(encodingFilter) == <<"^", "(">> \o encodingFilter \o <<")", "$">>

\* a result that takes the null pointer for an empty name
CharsetOrUnknown_EmptyForNull(detectedCharset) == detectedCharset.str

\* std::string result = detectedCharset ? detectedCharset : "UNKNOWN"
CharsetOrUnknown(detectedCharset) ==
    IF detectedCharset.isNull THEN S_UNKNOWN ELSE detectedCharset.str

\* a detector failure answered as "no guess"
DetectorFailure_AsUnknown(msg, handle) ==
    [throws |-> "none", result |-> S_UNKNOWN, log |-> << >>, ud |-> handle,
     steps |-> <<"detect">>]

\* logMessage(ERROR, msg); throw std::runtime_error(msg), the handle ud
\* never obtained ("none") or released by uchardet_delete ("deleted")
DetectorFailure(msg, handle) ==
    [throws |-> msg, result |-> S_empty, log |-> <<Log("ERROR", msg)>>,
     ud |-> handle, steps |-> <<"detect">>]

\* ud is the state of the local handle when detectEncoding is left, steps
\* what was done: the detection, then the match against the filter
detectEncoding(data, encodingFilter, env) ==
    IF env = "detNew" THEN
        DetectorFailure("Failed to initialize uchardet.", "none")
    ELSE IF env = "detHandle" THEN
        DetectorFailure("Failed to handle data with uchardet.", "deleted")
    ELSE LET detectedCharset == data.cs
             result == CharsetOrUnknown(detectedCharset)
         IN  IF encodingFilter # S_empty /\ result # S_UNKNOWN THEN
                 IF regex_error(EncodingPattern(encodingFilter)) THEN
                     [throws |-> "Invalid regex filter", result |-> S_empty,
                      log |-> <<Log("ERROR", "Invalid regex filter")>>,
                      ud |-> "deleted", steps |-> <<"detect", "srcfilter">>]
                 ELSE IF ~MatchEncodingFilter(result, encodingFilter) THEN
                     [throws |-> "none", result |-> S_MISMATCH,
                      log |-> <<Log("WARN", "Detected encoding does not match filter")>>,
                      ud |-> "deleted", steps |-> <<"detect", "srcfilter">>]
                 ELSE [throws |-> "none", result |-> result, log |-> << >>,
                       ud |-> "deleted", steps |-> <<"detect", "srcfilter">>]
             ELSE [throws |-> "none", result |-> result, log |-> << >>,
                   ud |-> "deleted", steps |-> <<"detect">>]

\* ------------------------------------------------------------------------
\* convertEncoding: [throws, output, log]
\* ------------------------------------------------------------------------
convertEncoding(input, fromEncoding, toEncoding_, env) ==
    IF ucnv_fails(fromEncoding, toEncoding_, env) THEN
        [throws |-> "ICU conversion failed", output |-> ZeroBytes,
         log |-> <<Log("ERROR", "ICU conversion failed")>>]
    ELSE [throws |-> "none",
          output |-> ucnv_convert(input, fromEncoding, toEncoding_),
          log |-> << >>]

\* ------------------------------------------------------------------------
\* Inputs: the request and the file tree
\* ------------------------------------------------------------------------
F_txt_md   == <<"t","x","t","|","m","d">>
F_gbk_utf8 == <<"g","b","k","|","u","t","f","8">>
F_open     == <<"(">>
N_a_txt    == <<"a",".","t","x","t">>
N_B_MD     == <<"B",".","M","D">>
N_a_csv    == <<"a",".","c","s","v">>
N_e_txt    == <<"e",".","t","x","t">>
N_j_txt    == <<"j",".","t","x","t">>
N_sub      == <<"s","u","b">>

Targets       == { S_empty, S_utf8a, S_foo }
SourceFilters == { S_empty, F_gbk_utf8, F_open }
FileFilters   == { S_empty, F_txt_md, F_open }

\* what the environment does to the library and I/O calls made for one file
Faults == { "none", "openRead", "detNew", "detHandle", "icu", "openWrite", "write" }

RegularEntry(name, cs, text, fault) ==
    [kind |-> "regular", name |-> name, content |-> Bytes(cs, text), fault |-> fault]

\* a subdirectory, socket, device or dangling link
OtherEntry == [kind |-> "other", name |-> N_sub, content |-> ZeroBytes, fault |-> "none"]

\* the directory iterator throws instead of yielding a further entry
ErrorEntry == [kind |-> "error", name |-> N_sub, content |-> ZeroBytes, fault |-> "none"]

RegularEntries ==
    { RegularEntry(N_a_txt, CStr(S_GBK), "t1", f) : f \in Faults } \cup
    { RegularEntry(N_B_MD, CStr(S_UTF8), "t2", "none"),
      RegularEntry(N_a_csv, NullPtr, "", "none"),
      RegularEntry(N_e_txt, CStr(S_empty), "t3", "none"),
      RegularEntry(N_j_txt, CStr(S_EUCJP), "t4", "none") }

Entries == RegularEntries \cup { OtherEntry, ErrorEntry }

\* a regular file whose read never returns (a stalled mount): its
\* convertFile never finishes
N_h_txt == <<"h",".","t","x","t">>
HangEntry == RegularEntry(N_h_txt, CStr(S_GBK), "t5", "hang")

RECURSIVE SeqsUpTo(_, _)
SeqsUpTo(S, n) ==
    IF n = 0 THEN { << >> }
    ELSE LET shorter == SeqsUpTo(S, n - 1)
         IN  shorter \cup { Append(q, x) : q \in { r \in shorter : Len(r) = n - 1 }, x \in S }

\* stat(path): a directory with its recursive listing, one regular file, or
\* neither
\* a listing ends where the iterator throws, holds a file name once, and
\* the environment makes the calls of at most one file fail
Listing(es) ==
    /\ \A i \in 1..Len(es) : es[i].kind = "error" => i = Len(es)
    /\ \A i, k \in 1..Len(es) :
           (i # k /\ es[i].kind # "error" /\ es[k].kind # "error") =>
               es[i].name # es[k].name
    /\ Cardinality({ i \in 1..Len(es) : es[i].fault # "none" }) <= 1

Roots ==
    { [kind |-> "dir", entries |-> es] :
          es \in { q \in SeqsUpTo(Entries, MaxEntries) : Listing(q) } } \cup
    { [kind |-> "file", entries |-> <<e>>] : e \in RegularEntries } \cup
    { [kind |-> "other", entries |-> << >>] }

\* the calls made: an empty or unrecognised target is tried without filters,
\* a malformed filter without the other filter
Requests ==
    { r \in [toEncoding : Targets, sourceEncodingFilter : SourceFilters,
             fileFilter : FileFilters] :
          /\ r.toEncoding # S_utf8a =>
                 r.sourceEncodingFilter = S_empty /\ r.fileFilter = S_empty
          /\ r.sourceEncodingFilter = F_open => r.fileFilter = S_empty
          /\ r.fileFilter = F_open => r.sourceEncodingFilter = S_empty }

Methods == { "convert", "convert_single" }

\* ------------------------------------------------------------------------
\* State
\* ------------------------------------------------------------------------
VARIABLES
    root,                 \* what path names
    toEncoding,           \* arguments of the call
    sourceEncodingFilter,
    fileFilter,
    pc,                   \* per method: position of the calling thread
    mappedToEncoding,     \* per method: local of the same name
    pos,                  \* per method: index of the entry being visited
    futures,              \* per method: entries whose task is in futures
    jpos,                 \* per method: index into futures of the join loop
    thrown,               \* per method: exception that left the method
    rlog,                 \* per method: messages logged by the calling thread
    files,                \* per method: current bytes of every entry
    job,                  \* per method and entry: the convertFile invocation
    arg,                  \* arguments of a helper called on its own
    ret,                  \* what that call returned
    timer,                \* a Timer object and the threads that use it
    drag,                 \* a DragArea widget
    button,               \* an AnimatedPushButton widget
    yamlConfig            \* a YAMLConfig object and the file it names

vars == << root, toEncoding, sourceEncodingFilter, fileFilter, pc,
           mappedToEncoding, pos, futures, jpos, thrown, rlog, files, job,
           arg, ret, timer, drag, button, yamlConfig >>

\* no helper is called on its own during a run of convert / convert_single
NoCall == << >>
helper == << arg, ret >>

\* the objects of the other headers do not exist during a run of the
\* converter or a call of one of its helpers
NoTimer == << >>
NoDragArea == << >>
NoButton == << >>
NoYAMLConfig == << >>
objects == << timer, drag, button, yamlConfig >>
NoObjects == timer = NoTimer /\ drag = NoDragArea /\ button = NoButton /\
             yamlConfig = NoYAMLConfig

inputs == << root, toEncoding, sourceEncodingFilter, fileFilter >>

NoOutcome == [kind |-> "none", reason |-> ""]
Outcome(kind, reason) == [kind |-> kind, reason |-> reason]

\* a convertFile invocation that has not started; runs counts the
\* invocations of convertFile made for the entry, ud is the state of the
\* uchardet handle of the invocation
NoJob ==
    [pc |-> "none", fileContent |-> ZeroBytes, from |-> S_empty,
     convertedContent |-> ZeroBytes, outcome |-> NoOutcome, exc |-> "none",
     log |-> << >>, steps |-> << >>, runs |-> 0, ud |-> "none"]

N == Len(root.entries)

Init ==
    /\ root \in Roots
    /\ \E r \in Requests :
           /\ toEncoding = r.toEncoding
           /\ sourceEncodingFilter = r.sourceEncodingFilter
           /\ fileFilter = r.fileFilter
    /\ pc = [m \in Methods |-> "idle"]
    /\ mappedToEncoding = [m \in Methods |-> S_empty]
    /\ pos = [m \in Methods |-> 0]
    /\ futures = [m \in Methods |-> << >>]
    /\ jpos = [m \in Methods |-> 1]
    /\ thrown = [m \in Methods |-> "none"]
    /\ rlog = [m \in Methods |-> << >>]
    /\ files = [m \in Methods |-> [i \in 1..Len(root.entries) |-> root.entries[i].content]]
    /\ job = [m \in Methods |-> [i \in 1..Len(root.entries) |-> NoJob]]
    /\ arg = NoCall
    /\ ret = NoCall
    /\ NoObjects

\* ------------------------------------------------------------------------
\* The calling thread: convert and convert_single
\* ------------------------------------------------------------------------
\* a test that takes no string for empty
empty_Never(s) == FALSE

\* std::string::empty()
empty(s) == s = S_empty

\* logMessage(WARN, "Unknown encoding name encountered") of mapEncodingName
mapEncodingNameLog(encoding) ==
    IF encoding # S_empty /\ ~InRegistry(encoding)
    THEN <<Log("WARN", "Unknown encoding name encountered")>>
    ELSE << >>

\* an exception leaves method m; in convert the futures vector is destroyed
\* on the way out
Raise(m, e, logs) ==
    /\ rlog' = [rlog EXCEPT ![m] = @ \o logs]
    /\ thrown' = [thrown EXCEPT ![m] = e]
    /\ pc' = [pc EXCEPT ![m] = IF m = "convert" THEN "unwind" ELSE "threw"]

\* where the calling thread goes after the if/else chain over the path kind
AfterBranch(m) == IF m = "convert" THEN "join" ELSE "returned"

StartJob(j) ==
    [NoJob EXCEPT !.pc = "open", !.runs = j.runs + 1, !.steps = <<"filter">>]

\* the calling thread of m sits in a convertFile that never finishes
Blocked(m) ==
    /\ pc[m] = "injob"
    /\ root.entries[pos[m]].fault = "hang"

\* a launch policy under which the calling thread runs the job itself
RunsAsTask_Never(m) == FALSE

\* std::async(std::launch::async, ...): convert hands the job to a task
RunsAsTask(m) == m = "convert"

\* entry of convert / convert_single up to the target-encoding check.
\* The caller runs convert_single on one copy of the tree and, once that call
\* is over or stuck for good, convert with the same arguments on a second,
\* equal copy: a call is not re-entered while a run is in flight, and both
\* results can be compared in one state.
Call(m) ==
    /\ pc[m] = "idle"
    /\ m = "convert" =>
           pc["convert_single"] \in {"returned", "threw"} \/ Blocked("convert_single")
    /\ LET mapped == mapEncodingName(toEncoding) IN
       IF empty(mapped)
       THEN /\ Raise(m, "Unsupported target encoding",
                     mapEncodingNameLog(toEncoding)
                       \o <<Log("ERROR", "Unsupported target encoding")>>)
            /\ UNCHANGED mappedToEncoding
       ELSE /\ rlog' = [rlog EXCEPT ![m] = @ \o mapEncodingNameLog(toEncoding)
                                             \o <<Log("INFO", "Target Encoding Mapped")>>]
            /\ mappedToEncoding' = [mappedToEncoding EXCEPT ![m] = mapped]
            /\ pc' = [pc EXCEPT ![m] = "root"]
            /\ UNCHANGED thrown
    /\ UNCHANGED << inputs, helper, objects, pos, futures, jpos, files, job >>

\* a test that takes everything but a regular file for a directory
IsDirectory_NotRegular(r) == r.kind # "file"

\* fs::is_directory(inputPath)
IsDirectory(r) == r.kind = "dir"

\* fs::is_regular_file(inputPath)
IsRegularFile(r) == r.kind = "file"

\* the if/else chain over the kind of the path, with its single-file branch
RootCheck(m) ==
    /\ pc[m] = "root"
    /\ IF IsDirectory(root) THEN
           /\ rlog' = [rlog EXCEPT ![m] = Append(@, Log("INFO", "Processing directory"))]
           /\ pc' = [pc EXCEPT ![m] = "scan"]
           /\ UNCHANGED << thrown, pos, job >>
       ELSE IF IsRegularFile(root) THEN
           LET r == shouldProcessFile(root.entries[1].name, fileFilter) IN
           IF r = "throw" THEN
               /\ Raise(m, "Invalid regex filter", <<Log("ERROR", "Invalid regex filter")>>)
               /\ UNCHANGED << pos, job >>
           ELSE IF r = "true" THEN
               /\ rlog' = [rlog EXCEPT ![m] = Append(@, Log("INFO", "Processing single file"))]
               /\ job' = [job EXCEPT ![m][1] = StartJob(@)]
               /\ pos' = [pos EXCEPT ![m] = 1]
               /\ pc' = [pc EXCEPT ![m] = "injob"]
               /\ UNCHANGED thrown
           ELSE
               /\ rlog' = [rlog EXCEPT ![m] = @ \o
                     <<Log("WARN", "File MisMatch"),
                       Log("WARN", "File does not match filter and will be skipped")>>]
               /\ pc' = [pc EXCEPT ![m] = AfterBranch(m)]
               /\ UNCHANGED << thrown, pos, job >>
       ELSE
           /\ Raise(m, "Invalid path", <<Log("ERROR", "Invalid path")>>)
           /\ UNCHANGED << pos, job >>
    /\ UNCHANGED << inputs, helper, objects, mappedToEncoding, futures, jpos, files >>

\* a test that takes every entry for a regular file
is_regular_file_Always(e) == TRUE

\* entry.is_regular_file()
is_regular_file(e) == e.kind = "regular"

\* a loop that stops one entry early
IteratorAtEnd_OneEarly(i) == i >= N

\* the range-for has reached end(recursive_directory_iterator)
IteratorAtEnd(i) == i > N

\* one iteration of the loop over recursive_directory_iterator
ScanStep(m) ==
    /\ pc[m] = "scan"
    /\ LET i == pos[m] + 1 IN
       IF IteratorAtEnd(i) THEN
           /\ pc' = [pc EXCEPT ![m] = AfterBranch(m)]
           /\ UNCHANGED << thrown, rlog, pos, job, futures >>
       ELSE LET e == root.entries[i] IN
           IF e.kind = "error" THEN
               /\ Raise(m, FilesystemError, << >>)
               /\ UNCHANGED << pos, job, futures >>
           ELSE IF ~is_regular_file(e) THEN
               /\ rlog' = [rlog EXCEPT ![m] = Append(@, Log("WARN", "Skipping non-regular file"))]
               /\ pos' = [pos EXCEPT ![m] = i]
               /\ UNCHANGED << thrown, pc, job, futures >>
           ELSE LET r == shouldProcessFile(e.name, fileFilter) IN
               IF r = "throw" THEN
                   /\ Raise(m, "Invalid regex filter", <<Log("ERROR", "Invalid regex filter")>>)
                   /\ UNCHANGED << pos, job, futures >>
               ELSE IF r = "false" THEN
                   /\ rlog' = [rlog EXCEPT ![m] = Append(@, Log("WARN", "File MisMatch"))]
                   /\ pos' = [pos EXCEPT ![m] = i]
                   /\ UNCHANGED << thrown, pc, job, futures >>
               ELSE
                   /\ job' = [job EXCEPT ![m][i] = StartJob(@)]
                   /\ pos' = [pos EXCEPT ![m] = i]
                   /\ IF RunsAsTask(m)
                      THEN /\ futures' = [futures EXCEPT ![m] = Append(@, i)]
                           /\ UNCHANGED pc
                      ELSE /\ pc' = [pc EXCEPT ![m] = "injob"]
                           /\ UNCHANGED futures
                   /\ UNCHANGED << thrown, rlog >>
    /\ UNCHANGED << inputs, helper, objects, mappedToEncoding, jpos, files >>

\* the calling thread comes back from a convertFile it ran itself
AfterConvertFile(m) ==
    /\ pc[m] = "injob"
    /\ job[m][pos[m]].pc = "end"
    /\ IF job[m][pos[m]].exc # "none"
       THEN Raise(m, job[m][pos[m]].exc, << >>)
       ELSE /\ pc' = [pc EXCEPT ![m] = IF IsDirectory(root) THEN "scan" ELSE AfterBranch(m)]
            /\ UNCHANGED << thrown, rlog >>
    /\ UNCHANGED << inputs, helper, objects, mappedToEncoding, pos, futures, jpos, files, job >>

\* a join loop that polls the future instead of blocking on it
JoinStep_NoWait(m) ==
    /\ pc[m] = "join"
    /\ IF jpos[m] > Len(futures[m])
       THEN pc' = [pc EXCEPT ![m] = "returned"] /\ UNCHANGED jpos
       ELSE jpos' = [jpos EXCEPT ![m] = @ + 1] /\ UNCHANGED pc
    /\ UNCHANGED << inputs, helper, objects, mappedToEncoding, pos, futures, thrown, rlog, files, job >>

\* one iteration of the loop over futures: future.get()
JoinStep(m) ==
    /\ pc[m] = "join"
    /\ IF jpos[m] > Len(futures[m]) THEN
           /\ pc' = [pc EXCEPT ![m] = "returned"]
           /\ UNCHANGED << thrown, rlog, jpos >>
       ELSE LET j == job[m][futures[m][jpos[m]]] IN
           /\ j.pc = "end"
           /\ IF j.exc = "none" THEN
                  /\ jpos' = [jpos EXCEPT ![m] = @ + 1]
                  /\ UNCHANGED << thrown, rlog, pc >>
              ELSE IF IsStdException(j.exc) THEN
                  /\ rlog' = [rlog EXCEPT ![m] = Append(@, Log("ERROR", "Asynchronous task failed"))]
                  /\ jpos' = [jpos EXCEPT ![m] = @ + 1]
                  /\ UNCHANGED << thrown, pc >>
              ELSE
                  /\ Raise(m, j.exc, << >>)
                  /\ UNCHANGED jpos
    /\ UNCHANGED << inputs, helper, objects, mappedToEncoding, pos, futures, files, job >>

\* futures whose destructor does not block (tasks left running)
Unwind_NoWait(m) ==
    /\ pc[m] = "unwind"
    /\ pc' = [pc EXCEPT ![m] = "threw"]
    /\ UNCHANGED << inputs, helper, objects, mappedToEncoding, pos, futures, jpos, thrown, rlog, files, job >>

\* ~vector<future<void>> while an exception propagates: the destructor of a
\* future obtained from std::async blocks until its task has finished
Unwind(m) ==
    /\ pc[m] = "unwind"
    /\ \A k \in 1..Len(futures[m]) : job[m][futures[m][k]].pc = "end"
    /\ pc' = [pc EXCEPT ![m] = "threw"]
    /\ UNCHANGED << inputs, helper, objects, mappedToEncoding, pos, futures, jpos, thrown, rlog, files, job >>

\* ------------------------------------------------------------------------
\* convertFile, run by the task of entry i (convert over a directory) or by
\* the calling thread itself
\* ------------------------------------------------------------------------
\* a handler that swallows the exception without logging it
Caught_Silent(j, e, logs) ==
    [j EXCEPT !.pc = "end", !.log = @ \o logs, !.outcome = Outcome("Failed", e)]

\* convertFile threw e after logging logs: the try/catch around the call
Caught(j, e, logs) ==
    IF IsStdException(e)
    THEN [j EXCEPT !.pc = "end",
                   !.log = @ \o logs \o <<Log("ERROR", "Error converting")>>,
                   !.outcome = Outcome("Failed", e)]
    ELSE [j EXCEPT !.pc = "end", !.log = @ \o logs, !.exc = e]

\* an early exit that records the skip and lets the pipeline go on
Skip_GoesOn(j, logs, reason) ==
    [j EXCEPT !.pc = "transcode", !.log = @ \o logs,
              !.outcome = Outcome("Skipped", reason)]

\* convertFile returned early with a warning
Skip(j, logs, reason) ==
    [j EXCEPT !.pc = "end", !.log = @ \o logs, !.outcome = Outcome("Skipped", reason)]

\* std::ifstream file(filePath); read the whole file; file.close()
ReadFile(j0, bytes, env) ==
    LET j == [j0 EXCEPT !.steps = Append(@, "open")] IN
    IF env = "openRead"
    THEN Caught(j, "Failed to open file", <<Log("ERROR", "Failed to open file")>>)
    ELSE [j EXCEPT !.pc = "detect", !.fileContent = bytes, !.steps = Append(@, "read")]

\* detectEncoding, the two early returns and mapEncodingName of the result
Detect(j0, encodingFilter, env) ==
    LET d == detectEncoding(j0.fileContent, encodingFilter, env)
        j == [j0 EXCEPT !.steps = @ \o d.steps, !.ud = d.ud]
        mappedDetectedEncoding == mapEncodingName(d.result)
        jn == [j EXCEPT !.steps = Append(@, "normalize")]
    IN  IF d.throws # "none" THEN Caught(j, d.throws, d.log)
        ELSE IF d.result = S_UNKNOWN THEN
            Skip(j, d.log \o <<Log("WARN", "Skipping file due to encoding issues")>>,
                 "Undetectable")
        ELSE IF d.result = S_MISMATCH THEN
            Skip(j, d.log \o <<Log("WARN", "Skipping file due to encoding issues")>>,
                 "EncodingMismatch")
        ELSE IF empty(mappedDetectedEncoding) THEN
            Skip(jn, d.log \o mapEncodingNameLog(d.result)
                       \o <<Log("WARN", "Unsupported detected encoding")>>,
                 "UnsupportedSourceEncoding")
        ELSE [jn EXCEPT !.pc = "transcode",
                        !.from = mappedDetectedEncoding,
                        !.log = @ \o d.log \o mapEncodingNameLog(d.result)]

\* a handler that logs the failure and goes on to the overwrite
Transcode_FailureIgnored(j0, to, env) ==
    LET j == [j0 EXCEPT !.steps = Append(@, "transcode")]
        c == convertEncoding(j.fileContent, j.from, to, env)
    IN  [j EXCEPT !.pc = "openw", !.convertedContent = c.output, !.log = @ \o c.log]

\* convertEncoding inside its try block
Transcode(j0, to, env) ==
    LET j == [j0 EXCEPT !.steps = Append(@, "transcode")]
        c == convertEncoding(j.fileContent, j.from, to, env)
    IN  IF c.throws # "none"
        THEN Caught(j, c.throws, c.log \o <<Log("ERROR", "Conversion failed for file")>>)
        ELSE [j EXCEPT !.pc = "openw", !.convertedContent = c.output]

\* convertFile from its entry up to the point where it reopens the file:
\* the read of the file and the computation on the task's own buffers
JobRead(m, i) ==
    /\ job[m][i].pc = "open"
    /\ root.entries[i].fault # "hang"
    /\ LET env == root.entries[i].fault
           j1 == ReadFile(job[m][i], files[m][i], env)
           j2 == IF j1.pc = "detect" THEN Detect(j1, sourceEncodingFilter, env) ELSE j1
           j3 == IF j2.pc = "transcode" THEN Transcode(j2, mappedToEncoding[m], env) ELSE j2
       IN  job' = [job EXCEPT ![m][i] = j3]
    /\ UNCHANGED << inputs, helper, objects, pc, mappedToEncoding, pos, futures, jpos, thrown, rlog, files >>

\* std::ofstream outputFile(filePath, binary | trunc)
JobOpenWrite(m, i) ==
    /\ job[m][i].pc = "openw"
    /\ LET j == [job[m][i] EXCEPT !.steps = Append(@, "openw")] IN
       IF root.entries[i].fault = "openWrite"
       THEN /\ job' = [job EXCEPT ![m][i] =
                   Caught(j, "Failed to open file for writing",
                          <<Log("ERROR", "Failed to open file for writing")>>)]
            /\ UNCHANGED files
       ELSE /\ job' = [job EXCEPT ![m][i] = [j EXCEPT !.pc = "write"]]
            /\ files' = [files EXCEPT ![m][i] = ZeroBytes]
    /\ UNCHANGED << inputs, helper, objects, pc, mappedToEncoding, pos, futures, jpos, thrown, rlog >>

\* outputFile.write(...); outputFile.close(); the final INFO line
JobWrite(m, i) ==
    /\ job[m][i].pc = "write"
    /\ LET j == [job[m][i] EXCEPT !.steps = Append(@, "write")] IN
       /\ job' = [job EXCEPT ![m][i] =
               [j EXCEPT !.pc = "end",
                         !.log = Append(@, Log("INFO", "from -> to")),
                         !.outcome = Outcome("Converted", "")]]
       /\ files' = [files EXCEPT ![m][i] =
               IF root.entries[i].fault = "write" THEN @ ELSE j.convertedContent]
    /\ UNCHANGED << inputs, helper, objects, pc, mappedToEncoding, pos, futures, jpos, thrown, rlog >>

\* ------------------------------------------------------------------------
\* Specification
\* ------------------------------------------------------------------------
Next ==
    \E m \in Methods :
        \/ Call(m)
        \/ RootCheck(m)
        \/ ScanStep(m)
        \/ AfterConvertFile(m)
        \/ JoinStep(m)
        \/ Unwind(m)
        \/ \E i \in 1..N : JobRead(m, i)
        \/ \E i \in 1..N : JobOpenWrite(m, i)
        \/ \E i \in 1..N : JobWrite(m, i)

Spec == Init /\ [][Next]_vars

\* ------------------------------------------------------------------------
\* Runs over a directory that holds one file whose job never finishes
\* ------------------------------------------------------------------------
HangListing(es) ==
    /\ Len(es) >= 1
    /\ \A i, k \in 1..Len(es) : i # k => es[i].name # es[k].name
    /\ \E i \in 1..Len(es) : es[i] = HangEntry

HangRoots ==
    { [kind |-> "dir", entries |-> es] :
          es \in { q \in SeqsUpTo({ HangEntry, OtherEntry,
                                    RegularEntry(N_a_txt, CStr(S_GBK), "t1", "none"),
                                    RegularEntry(N_a_csv, NullPtr, "", "none") },
                                  MaxEntries + 1) : HangListing(q) } }

HangRequests ==
    { r \in Requests : r.sourceEncodingFilter = S_empty /\ r.fileFilter # F_open }

InitHang ==
    /\ root \in HangRoots
    /\ \E r \in HangRequests :
           /\ toEncoding = r.toEncoding
           /\ sourceEncodingFilter = r.sourceEncodingFilter
           /\ fileFilter = r.fileFilter
    /\ pc = [m \in Methods |-> "idle"]
    /\ mappedToEncoding = [m \in Methods |-> S_empty]
    /\ pos = [m \in Methods |-> 0]
    /\ futures = [m \in Methods |-> << >>]
    /\ jpos = [m \in Methods |-> 1]
    /\ thrown = [m \in Methods |-> "none"]
    /\ rlog = [m \in Methods |-> << >>]
    /\ files = [m \in Methods |-> [i \in 1..Len(root.entries) |-> root.entries[i].content]]
    /\ job = [m \in Methods |-> [i \in 1..Len(root.entries) |-> NoJob]]
    /\ arg = NoCall
    /\ ret = NoCall
    /\ NoObjects

\* the steps of the thread that called m
Caller(m) ==
    \/ Call(m)
    \/ RootCheck(m)
    \/ ScanStep(m)
    \/ AfterConvertFile(m)
    \/ JoinStep(m)
    \/ Unwind(m)

\* the steps of the convertFile invocation of entry i
TaskStep(m, i) ==
    /\ i \in 1..N
    /\ \/ JobRead(m, i)
       \/ JobOpenWrite(m, i)
       \/ JobWrite(m, i)

\* the thread that called m; under convert_single it runs the jobs itself
CallingThread(m) ==
    \/ Caller(m)
    \/ m = "convert_single" /\ \E i \in 1..N : TaskStep(m, i)

\* the thread std::async starts for the task of entry i
TaskThread(i) == TaskStep("convert", i)

\* every thread that can take a step is scheduled in the end
Fairness ==
    /\ \A m \in Methods : WF_vars(CallingThread(m))
    /\ \A i \in 1..(MaxEntries + 1) : WF_vars(TaskThread(i))

SpecHang == InitHang /\ [][Next]_vars /\ Fairness

\* ------------------------------------------------------------------------
\* Vocabulary of the properties
\* ------------------------------------------------------------------------
Terminal(m) == pc[m] \in {"returned", "threw"}
Started(m) == pc[m] # "idle"
Ended(m, i) == job[m][i].pc = "end"
TargetValid == InRegistry(toEncoding)

\* no file has been opened, read, transcoded or written and none has an outcome
Untouched(m) ==
    \A i \in 1..N :
        /\ job[m][i].steps = << >>
        /\ job[m][i].outcome = NoOutcome
        /\ files[m][i] = root.entries[i].content

\* entry i is a regular file whose name passes the filename filter
Passing(i) ==
    /\ root.entries[i].kind = "regular"
    /\ shouldProcessFile(root.entries[i].name, fileFilter) = "true"

\* the bytes entry i must hold after a job with this outcome, computed from
\* entry i alone
OwnResult(m, i) ==
    LET e == root.entries[i] IN
    IF job[m][i].outcome.kind = "Converted"
    THEN IF e.fault = "write" THEN ZeroBytes
         ELSE ucnv_convert(e.content, mapEncodingName(e.content.cs.str), mappedToEncoding[m])
    ELSE e.content

\* log lines that name the file of the job
PathMessages ==
    { "Failed to open file", "Skipping file due to encoding issues",
      "Unsupported detected encoding", "Conversion failed for file",
      "Failed to open file for writing", "from -> to", "Error converting" }

Count(log, msgs) == Cardinality({ k \in 1..Len(log) : log[k].msg \in msgs })

\* ------------------------------------------------------------------------
\* C1: an unsupported target encoding (unrecognised or empty) ends both
\* methods with the fatal "Unsupported target encoding" error before the
\* path is inspected and with no file opened, read, transcoded or written.
\* ------------------------------------------------------------------------
C1_UnsupportedTargetIsFatal ==
    \A m \in Methods :
        (Started(m) /\ ~InRegistry(toEncoding)) =>
            /\ pc[m] \in {"unwind", "threw"}
            /\ thrown[m] = "Unsupported target encoding"
            /\ Untouched(m)

\* ------------------------------------------------------------------------
\* C2: over a directory, a file-scoped failure never escapes its job, and
\* every other regular file passing the filename filter still runs the whole
\* pipeline to its own outcome, with bytes that depend on that file alone.
\* ------------------------------------------------------------------------
C2_FailureStaysInJob ==
    \A m \in Methods :
        /\ \A i \in 1..N : job[m][i].exc = "none"
        /\ thrown[m] \in {"none", "Unsupported target encoding", "Invalid path",
                          "Invalid regex filter", FilesystemError}
        /\ (IsDirectory(root) /\ pc[m] = "returned") =>
               \A i \in 1..N : Passing(i) =>
                   /\ Ended(m, i)
                   /\ job[m][i].outcome.kind \in {"Skipped", "Failed", "Converted"}
                   /\ files[m][i] = OwnResult(m, i)

C2_Witness ==
    /\ IsDirectory(root)
    /\ \A m \in Methods :
           /\ pc[m] = "returned"
           /\ \E i, k \in 1..N :
                  /\ job[m][i].outcome.kind = "Failed"
                  /\ job[m][k].outcome.kind = "Converted"
                  /\ files[m][k] # root.entries[k].content

\* ------------------------------------------------------------------------
\* C3: convert hands control back, by returning or by throwing, only when
\* every task it dispatched has reached a terminal outcome.
\* ------------------------------------------------------------------------
C3_ConvertJoinsAllTasks ==
    Terminal("convert") =>
        /\ \A k \in 1..Len(futures["convert"]) :
               /\ Ended("convert", futures["convert"][k])
               /\ job["convert"][futures["convert"][k]].outcome.kind
                      \in {"Skipped", "Failed", "Converted"}
        /\ \A i \in 1..N : job["convert"][i].pc \in {"none", "end"}

C3_Witness ==
    /\ pc["convert"] = "threw"
    /\ thrown["convert"] = FilesystemError
    /\ Len(futures["convert"]) >= 1
    /\ \E i \in 1..N : job["convert"][i].outcome.kind = "Converted"

\* ------------------------------------------------------------------------
\* C4: on the same tree and request, convert and convert_single end the
\* same way, with the same outcome for every file and the same final bytes
\* in every file, whatever the interleaving of the tasks.
\* ------------------------------------------------------------------------
C4_ConvertEquivalentToSingle ==
    (Terminal("convert") /\ Terminal("convert_single")) =>
        /\ pc["convert"] = pc["convert_single"]
        /\ thrown["convert"] = thrown["convert_single"]
        /\ files["convert"] = files["convert_single"]
        /\ \A i \in 1..N :
               job["convert"][i].outcome = job["convert_single"][i].outcome

C4_Witness ==
    /\ Terminal("convert") /\ Terminal("convert_single")
    /\ Len(futures["convert"]) >= 2
    /\ \E i, k \in 1..N :
           /\ job["convert"][i].outcome.kind = "Converted"
           /\ job["convert"][k].outcome.kind = "Skipped"
           /\ files["convert"][i] # root.entries[i].content

\* ------------------------------------------------------------------------
\* C5 as stated: every job that ended has emitted exactly one log line
\* reporting its file's outcome, and a job that has not ended none.
\* ------------------------------------------------------------------------
C5_ExactlyOneReport ==
    \A m \in Methods : \A i \in 1..N :
        Count(job[m][i].log, PathMessages) = IF Ended(m, i) THEN 1 ELSE 0

\* C5 as amended: every job ends in exactly one terminal outcome; a Skipped
\* or a Converted outcome is reported by exactly one line naming the file, a
\* Failed outcome by exactly one "Error converting" line of the handler
\* around convertFile plus the ERROR line convertFile logged itself when it
\* raised or re-raised (one or two lines naming the file in all).
C5_OneOutcomeFailuresReportedAgain ==
    \A m \in Methods : \A i \in 1..N :
        LET j == job[m][i] IN
        IF ~Ended(m, i)
        THEN j.outcome = NoOutcome /\ Count(j.log, PathMessages) = 0
        ELSE /\ j.outcome.kind \in {"Skipped", "Failed", "Converted"}
             /\ j.outcome.kind \in {"Skipped", "Converted"} =>
                    Count(j.log, PathMessages) = 1
             /\ j.outcome.kind = "Failed" =>
                    /\ Count(j.log, {"Error converting"}) = 1
                    /\ Count(j.log, PathMessages) \in {1, 2}
                    /\ Count(j.log, PathMessages) = 2 <=>
                           j.outcome.reason \in
                               {"Failed to open file", "ICU conversion failed",
                                "Failed to open file for writing"}

C5_Witness ==
    \E m \in Methods : \E i, k \in 1..N :
        /\ Ended(m, i) /\ job[m][i].outcome = Outcome("Failed", "ICU conversion failed")
        /\ Count(job[m][i].log, PathMessages) = 2
        /\ Ended(m, k) /\ job[m][k].outcome.kind = "Converted"

\* ------------------------------------------------------------------------
\* C6: a directory run that returns has produced one outcome for each of
\* the N regular files passing the filename filter and for no other entry;
\* exactly the M of them for which the detector gave no guess are
\* Skipped(Undetectable), and those keep their bytes; in both methods, with
\* or without a source-encoding filter.
\* ------------------------------------------------------------------------
NoGuess(i) ==
    /\ root.entries[i].content.cs.isNull
    /\ root.entries[i].fault \notin {"openRead", "detNew", "detHandle"}

C6_UndetectableCount ==
    \A m \in Methods :
        (IsDirectory(root) /\ pc[m] = "returned") =>
            LET P == { i \in 1..N : Passing(i) }
                U == { i \in P : NoGuess(i) }
            IN  /\ { i \in 1..N : job[m][i].outcome # NoOutcome } = P
                /\ { i \in 1..N : job[m][i].outcome = Outcome("Skipped", "Undetectable") } = U
                /\ \A i \in U : files[m][i] = root.entries[i].content

C6_Witness ==
    /\ IsDirectory(root) /\ N = 2
    /\ sourceEncodingFilter # S_empty
    /\ \A m \in Methods :
           /\ pc[m] = "returned"
           /\ Cardinality({ i \in 1..N : Passing(i) }) = 2
           /\ Cardinality({ i \in 1..N : job[m][i].outcome = Outcome("Skipped", "Undetectable") }) = 1
           /\ \E i \in 1..N : job[m][i].outcome.kind = "Converted"

\* ------------------------------------------------------------------------
\* C7: a file whose detected encoding name is not in the registry ends
\* Skipped(UnsupportedSourceEncoding), without a transcode and unmodified.
\* ------------------------------------------------------------------------
C7_UnregisteredSourceSkipped ==
    \A m \in Methods : \A i \in 1..N :
        LET d == detectEncoding(root.entries[i].content, sourceEncodingFilter,
                                root.entries[i].fault)
        IN  ( /\ Ended(m, i)
              /\ TargetValid
              /\ root.entries[i].fault # "openRead"
              /\ d.throws = "none"
              /\ d.result \notin {S_UNKNOWN, S_MISMATCH}
              /\ ~InRegistry(d.result) ) =>
                /\ job[m][i].outcome = Outcome("Skipped", "UnsupportedSourceEncoding")
                /\ \A k \in 1..Len(job[m][i].steps) : job[m][i].steps[k] # "transcode"
                /\ files[m][i] = root.entries[i].content

\* ------------------------------------------------------------------------
\* C8: a malformed source-encoding filter aborts the run with an
\* invalid-filter error before any file is opened and without any outcome.
\* ------------------------------------------------------------------------
C8_MalformedSourceFilterIsFatal ==
    \A m \in Methods :
        ( /\ Started(m) /\ TargetValid /\ root.kind # "other"
          /\ \E i \in 1..N : Passing(i)
          /\ sourceEncodingFilter # S_empty
          /\ regex_error(EncodingPattern(sourceEncodingFilter)) ) =>
            /\ Untouched(m)
            /\ Terminal(m) => pc[m] = "threw" /\ thrown[m] = "Invalid regex filter"

\* ------------------------------------------------------------------------
\* C9: a malformed filename filter makes the run fail with an invalid-filter
\* error for every valid root, a directory without regular files included,
\* before any file is opened or any task dispatched.
\* ------------------------------------------------------------------------
C9_MalformedFileFilterIsFatal ==
    \A m \in Methods :
        ( /\ Terminal(m) /\ TargetValid /\ root.kind # "other"
          /\ \A i \in 1..N : root.entries[i].kind # "error"
          /\ fileFilter # S_empty
          /\ regex_error(FilePattern(fileFilter)) ) =>
            /\ pc[m] = "threw" /\ thrown[m] = "Invalid regex filter"
            /\ Untouched(m) /\ futures[m] = << >>

\* ------------------------------------------------------------------------
\* C10: with a valid target, a path that is neither a directory nor a
\* regular file ends both methods with the fatal "Invalid path" error, no
\* file opened and no task dispatched.
\* ------------------------------------------------------------------------
C10_InvalidPathIsFatal ==
    \A m \in Methods :
        (root.kind = "other" /\ TargetValid /\ pc[m] \notin {"idle", "root"}) =>
            /\ pc[m] \in {"unwind", "threw"}
            /\ thrown[m] = "Invalid path"
            /\ futures[m] = << >>
            /\ Untouched(m)

C10_Witness ==
    /\ root.kind = "other"
    /\ \A m \in Methods : pc[m] = "threw" /\ thrown[m] = "Invalid path"

\* ------------------------------------------------------------------------
\* C11: a regular file whose name the filename filter rejects has no
\* convertFile invocation at any point of the run, under a single-file root
\* and under a directory root: it is never opened, read or handed to the
\* detector, no task is dispatched for it and its bytes stay as they were.
\* ------------------------------------------------------------------------
\* the name of entry i does not match the (well-formed) filename filter
Rejected(i) ==
    /\ root.entries[i].kind = "regular"
    /\ fileFilter # S_empty
    /\ ~regex_error(FilePattern(fileFilter))
    /\ ~MatchFileFilter(root.entries[i].name, fileFilter)

C11_RejectedNameNeverOpened ==
    \A m \in Methods : \A i \in 1..N :
        Rejected(i) =>
            /\ job[m][i] = NoJob
            /\ files[m][i] = root.entries[i].content
            /\ \A k \in 1..Len(futures[m]) : futures[m][k] # i

C11_Witness ==
    /\ IsDirectory(root)
    /\ \A m \in Methods :
           /\ pc[m] = "returned"
           /\ \E i, k \in 1..N :
                  /\ Rejected(i)
                  /\ Count(rlog[m], {"File MisMatch"}) = 1
                  /\ job[m][k].outcome.kind = "Converted"

\* ------------------------------------------------------------------------
\* C14: in one run convertFile is invoked at most once per entry and only
\* for regular files passing the filename filter; convert holds exactly one
\* future per invocation and convert_single none; no invocation opens, reopens
\* or writes its file twice; and when the run returns every regular file
\* passing the filter (the single file of a file root, every file the
\* recursive listing of a directory root holds) has had its invocation.
\* ------------------------------------------------------------------------
\* no element occurs twice in seq
NoRepeat(seq) ==
    \A k \in 1..Len(seq) : \A q \in 1..(k - 1) : seq[q] # seq[k]

C14_OneJobPerPassingFile ==
    \A m \in Methods :
        /\ NoRepeat(futures[m])
        /\ (m = "convert_single" \/ ~IsDirectory(root)) => futures[m] = << >>
        /\ \A k \in 1..Len(futures[m]) : job[m][futures[m][k]].runs = 1
        /\ \A i \in 1..N :
               /\ job[m][i].runs <= 1
               /\ job[m][i].runs = 1 <=> job[m][i].pc # "none"
               /\ job[m][i].runs = 1 =>
                      /\ Passing(i)
                      /\ NoRepeat(job[m][i].steps)
                      /\ (m = "convert" /\ IsDirectory(root)) =>
                             \E k \in 1..Len(futures[m]) : futures[m][k] = i
        /\ pc[m] = "returned" => \A i \in 1..N : Passing(i) => job[m][i].runs = 1

C14_Witness ==
    /\ IsDirectory(root) /\ N = 2
    /\ Len(futures["convert"]) = 2
    /\ \A m \in Methods :
           /\ pc[m] = "returned"
           /\ \A i \in 1..N : Passing(i) /\ job[m][i].runs = 1 /\ Ended(m, i)
           /\ \E i \in 1..N : job[m][i].outcome.kind = "Converted"

\* ------------------------------------------------------------------------
\* C15: once the first convertFile invocation of a run has been started, the
\* run no longer ends with an error raised to the caller.
\* ------------------------------------------------------------------------
\* the request passes every up-front validation
RequestValid ==
    /\ TargetValid
    /\ ~regex_error(EncodingPattern(sourceEncodingFilter))
    /\ ~regex_error(FilePattern(fileFilter))

C15_NoFatalAfterFirstJob ==
    \A m \in Methods :
        (RequestValid /\ \E i \in 1..N : job[m][i].runs > 0) =>
            /\ pc[m] \notin {"unwind", "threw"}
            /\ thrown[m] = "none"

\* ------------------------------------------------------------------------
\* C16: a job whose overwrite step did not store all the converted bytes
\* (the file could not be opened for writing, or the write failed after the
\* truncation) ends Failed and is never reported Converted; every file
\* reported Converted holds exactly the transcoded bytes.
\* ------------------------------------------------------------------------
C16_ConvertedMeansWritten ==
    \A m \in Methods : \A i \in 1..N :
        (RequestValid /\ Ended(m, i)) =>
            /\ job[m][i].outcome.kind = "Converted" =>
                   files[m][i] = job[m][i].convertedContent
            /\ root.entries[i].fault \in {"openWrite", "write"} =>
                   job[m][i].outcome.kind = "Failed"

\* ------------------------------------------------------------------------
\* C17: the bytes of a file differ from what they were before the run only
\* if its job has reached the overwrite step, after a transcode that
\* succeeded; a job that ended Skipped, or Failed in the open for reading,
\* in the detector, in the source filter or in the transcode, has left its
\* file byte for byte as it was.
\* ------------------------------------------------------------------------
PreOverwriteFailures ==
    { "Failed to open file", "Failed to initialize uchardet.",
      "Failed to handle data with uchardet.", "Invalid regex filter",
      "ICU conversion failed" }

\* position of the first occurrence of step st in the trace, 0 if absent
StepIndex(steps, st) ==
    IF \E k \in 1..Len(steps) : steps[k] = st
    THEN CHOOSE k \in 1..Len(steps) :
             steps[k] = st /\ \A q \in 1..(k - 1) : steps[q] # st
    ELSE 0

C17_OnlyOverwriteModifies ==
    \A m \in Methods : \A i \in 1..N :
        LET j == job[m][i] IN
        /\ files[m][i] # root.entries[i].content =>
               /\ StepIndex(j.steps, "transcode") > 0
               /\ StepIndex(j.steps, "openw") > StepIndex(j.steps, "transcode")
               /\ ~ucnv_fails(j.from, mappedToEncoding[m], root.entries[i].fault)
               /\ j.outcome.kind \in {"none", "Converted"}
        /\ ( Ended(m, i) /\
             \/ j.outcome.kind = "Skipped"
             \/ j.outcome.kind = "Failed" /\ j.outcome.reason \in PreOverwriteFailures ) =>
               files[m][i] = root.entries[i].content

C17_Witness ==
    /\ IsDirectory(root) /\ N = 2
    /\ \A m \in Methods :
           /\ pc[m] = "returned"
           /\ \E i, k \in 1..N :
                  /\ job[m][i].outcome = Outcome("Failed", "ICU conversion failed")
                  /\ job[m][k].outcome.kind = "Skipped"
                  /\ files[m][i] = root.entries[i].content
                  /\ files[m][k] = root.entries[k].content

\* ------------------------------------------------------------------------
\* C18: with a well-formed source-encoding filter, a file with a detected
\* encoding is transcoded exactly when that encoding is one of the filter's
\* alternatives, compared case-insensitively, an alternative standing for its
\* encoding under the canonical name or any alias (filter utf8 admits a file
\* detected as UTF-8); any other detected file ends Skipped(EncodingMismatch)
\* with its bytes unchanged.
\* ------------------------------------------------------------------------
\* some alternative of the filter names the encoding detected
AdmittedByFilter(detected, filter) ==
    \E alt \in Alternatives(filter) :
        \/ ToLowerStr(alt) = ToLowerStr(detected)
        \/ /\ InRegistry(alt) /\ InRegistry(detected)
           /\ mapEncodingName(alt) = mapEncodingName(detected)

C18_SourceFilterAdmitsAliases ==
    \A m \in Methods : \A i \in 1..N :
        LET e == root.entries[i] IN
        ( /\ Ended(m, i) /\ RequestValid
          /\ sourceEncodingFilter # S_empty
          /\ e.fault \notin {"openRead", "detNew", "detHandle"}
          /\ ~e.content.cs.isNull ) =>
            IF AdmittedByFilter(e.content.cs.str, sourceEncodingFilter)
            THEN StepIndex(job[m][i].steps, "transcode") > 0
            ELSE /\ job[m][i].outcome = Outcome("Skipped", "EncodingMismatch")
                 /\ files[m][i] = root.entries[i].content

\* ------------------------------------------------------------------------
\* C19: a job whose detector cannot be created or rejects the buffer ends
\* Failed with that error, never Skipped; its file keeps its bytes; no
\* uchardet handle outlives the job that obtained it; and the run over a
\* directory goes on to give every other passing file its own result.
\* ------------------------------------------------------------------------
DetectorFaults == { "detNew", "detHandle" }

C19_DetectorFailureIsFileFailure ==
    \A m \in Methods : \A i \in 1..N :
        LET e == root.entries[i]
            j == job[m][i]
        IN  /\ Ended(m, i) => j.ud \in {"none", "deleted"}
            /\ (Ended(m, i) /\ e.fault \in DetectorFaults) =>
                   /\ j.outcome =
                          Outcome("Failed",
                                  IF e.fault = "detNew"
                                  THEN "Failed to initialize uchardet."
                                  ELSE "Failed to handle data with uchardet.")
                   /\ j.exc = "none"
                   /\ files[m][i] = e.content
                   /\ j.ud = IF e.fault = "detNew" THEN "none" ELSE "deleted"
            /\ (e.fault \in DetectorFaults /\ Passing(i) /\ IsDirectory(root)
                  /\ pc[m] = "returned") =>
                   \A k \in 1..N : Passing(k) =>
                       /\ Ended(m, k)
                       /\ files[m][k] = OwnResult(m, k)
                       /\ (RequestValid /\ root.entries[k].fault = "none") =>
                              job[m][k].outcome.kind \in {"Skipped", "Converted"}

C19_Witness ==
    /\ IsDirectory(root) /\ N = 2
    /\ \A m \in Methods :
           /\ pc[m] = "returned"
           /\ \E i, k \in 1..N :
                  /\ root.entries[i].fault = "detHandle"
                  /\ job[m][i].outcome.kind = "Failed"
                  /\ job[m][k].outcome.kind = "Converted"
                  /\ files[m][k] # root.entries[k].content

\* ------------------------------------------------------------------------
\* C20: the steps a job has taken are always an initial segment of the
\* pipeline filename filter, open, read, detect, source-encoding filter
\* (when one is configured), normalize, transcode, reopen, write: none is
\* repeated, reordered or passed over. A job has an outcome exactly when it
\* is at its end; Converted closes the whole pipeline, Skipped leaves it
\* after the detection, the source filter or the normalization, Failed at
\* an I/O, detector, filter or transcode step; no step follows the exit.
\* ------------------------------------------------------------------------
Pipeline ==
    <<"filter", "open", "read", "detect">>
        \o (IF sourceEncodingFilter # S_empty THEN <<"srcfilter">> ELSE << >>)
        \o <<"normalize", "transcode", "openw", "write">>

IsPrefix(s, t) == Len(s) <= Len(t) /\ \A k \in 1..Len(s) : s[k] = t[k]

LastStep(j) == IF j.steps = << >> THEN "none" ELSE j.steps[Len(j.steps)]

C20_PipelineOrder ==
    \A m \in Methods : \A i \in 1..N :
        LET j == job[m][i] IN
        /\ IsPrefix(j.steps, Pipeline)
        /\ j.outcome # NoOutcome <=> j.pc = "end"
        /\ j.pc = "none" <=> j.steps = << >>
        /\ j.pc = "open" => LastStep(j) = "filter"
        /\ j.pc = "openw" => LastStep(j) = "transcode"
        /\ j.pc = "write" => LastStep(j) = "openw"
        /\ j.pc \in {"none", "open", "openw", "write", "end"}
        /\ j.outcome.kind = "Converted" => j.steps = Pipeline
        /\ j.outcome.kind = "Skipped" =>
               LastStep(j) \in {"detect", "srcfilter", "normalize"}
        /\ j.outcome.kind = "Failed" =>
               LastStep(j) \in {"open", "detect", "srcfilter", "transcode", "openw"}

C20_Witness ==
    /\ IsDirectory(root) /\ N = 2
    /\ sourceEncodingFilter # S_empty
    /\ \A m \in Methods :
           /\ pc[m] = "returned"
           /\ \E i, k \in 1..N :
                  /\ job[m][i].outcome.kind = "Converted"
                  /\ job[m][i].steps = Pipeline
                  /\ job[m][k].outcome = Outcome("Skipped", "EncodingMismatch")
                  /\ LastStep(job[m][k]) = "srcfilter"

\* ------------------------------------------------------------------------
\* C22: an empty target encoding ends the call with the fatal "Unsupported
\* target encoding" error before any file is touched; a file whose detected
\* encoding name is the empty string is skipped with a warning, keeps its
\* bytes, is never transcoded or reopened, raises nothing, and the other
\* files of the batch still reach their own outcome.
\* ------------------------------------------------------------------------
EmptyDetected(i) ==
    /\ root.entries[i].kind = "regular"
    /\ root.entries[i].content.cs = CStr(S_empty)

C22_EmptyTargetFatalEmptyDetectedSkipped ==
    \A m \in Methods :
        /\ (Started(m) /\ toEncoding = S_empty) =>
               /\ pc[m] \in {"unwind", "threw"}
               /\ thrown[m] = "Unsupported target encoding"
               /\ Untouched(m)
        /\ \A i \in 1..N :
               (/\ EmptyDetected(i)
                /\ ~regex_error(EncodingPattern(sourceEncodingFilter))
                /\ Ended(m, i)) =>
                   /\ job[m][i].outcome.kind = "Skipped"
                   /\ sourceEncodingFilter = S_empty =>
                          job[m][i].outcome.reason = "UnsupportedSourceEncoding"
                   /\ job[m][i].exc = "none"
                   /\ StepIndex(job[m][i].steps, "transcode") = 0
                   /\ StepIndex(job[m][i].steps, "openw") = 0
                   /\ files[m][i] = root.entries[i].content
                   /\ thrown[m] \in {"none", FilesystemError}
                   /\ (IsDirectory(root) /\ pc[m] = "returned") =>
                          \A k \in 1..N : Passing(k) => Ended(m, k)

C22_Witness ==
    /\ IsDirectory(root) /\ N = 2
    /\ sourceEncodingFilter = S_empty
    /\ EmptyDetected(1)
    /\ \A m \in Methods :
           /\ pc[m] = "returned"
           /\ job[m][1].outcome = Outcome("Skipped", "UnsupportedSourceEncoding")
           /\ job[m][2].outcome.kind = "Converted"
           /\ files[m][2] # root.entries[2].content

\* ------------------------------------------------------------------------
\* C23: in a directory run an entry that is not a regular file gets the
\* warning "Skipping non-regular file" and nothing else: no job, no
\* exception, and once the run has returned every regular file that passes
\* the filename filter, the ones after it included, has been processed.
\* ------------------------------------------------------------------------
NonRegular(i) == root.entries[i].kind = "other"

C23_NonRegularEntrySkipped ==
    \A m \in Methods :
        IsDirectory(root) =>
            /\ \A i \in 1..N :
                   NonRegular(i) =>
                       /\ job[m][i] = NoJob
                       /\ \A k \in 1..Len(futures[m]) : futures[m][k] # i
                       /\ (pos[m] = i /\ thrown[m] # "none") =>
                              /\ i < N
                              /\ \/ root.entries[i + 1].kind = "error"
                                 \/ regex_error(FilePattern(fileFilter))
            /\ Len(rlog[m]) > 0 =>
                   Count(rlog[m], {"Skipping non-regular file"}) =
                       Cardinality({ i \in 1..pos[m] : NonRegular(i) })
            /\ pc[m] = "returned" =>
                   \A k \in 1..N : Passing(k) => Ended(m, k)

C23_Witness ==
    /\ IsDirectory(root) /\ N = 2
    /\ NonRegular(1)
    /\ \A m \in Methods :
           /\ pc[m] = "returned"
           /\ Count(rlog[m], {"Skipping non-regular file"}) = 1
           /\ job[m][1] = NoJob
           /\ job[m][2].outcome.kind = "Converted"

\* ------------------------------------------------------------------------
\* C21: when the job of one file never finishes, convert still dispatches
\* every passing file of the scan and every other task reaches its outcome
\* (under fair scheduling) while convert itself never returns; under
\* convert_single the calling thread stays in that job and no later file is
\* ever processed.
\* ------------------------------------------------------------------------
Hung(i) == root.entries[i].fault = "hang"

\* every passing file has been dispatched and all but the hung one has ended
ConvertSettled ==
    \A k \in 1..N :
        Passing(k) =>
            /\ \E q \in 1..Len(futures["convert"]) : futures["convert"][q] = k
            /\ IF Hung(k) THEN job["convert"][k].pc = "open"
                          ELSE Ended("convert", k) /\ job["convert"][k].outcome # NoOutcome

C21_HungJobBlocksOnlySequentialRun ==
    /\ [](\A i \in 1..N :
              Hung(i) =>
                  /\ \A m \in Methods : job[m][i].pc \in {"none", "open"}
                  /\ job["convert"][i].pc = "open" => ~Terminal("convert")
                  /\ job["convert_single"][i].pc = "open" =>
                         /\ pc["convert_single"] = "injob"
                         /\ pos["convert_single"] = i
                         /\ \A k \in (i + 1)..N : job["convert_single"][k] = NoJob)
    /\ (pc["convert"] = "scan") ~> ConvertSettled

C21_Witness ==
    /\ N = 3 /\ Hung(2)
    /\ Passing(1) /\ Passing(3)
    /\ pc["convert"] = "join"
    /\ ConvertSettled
    /\ job["convert"][1].outcome.kind = "Converted"
    /\ job["convert"][3].outcome.kind = "Skipped"
    /\ pc["convert_single"] = "injob"
    /\ job["convert_single"][1].outcome.kind = "Converted"
    /\ job["convert_single"][3] = NoJob

\* ------------------------------------------------------------------------
\* The private helpers called on their own
\* ------------------------------------------------------------------------
\* no run of convert / convert_single is in progress
NoRun ==
    /\ root = [kind |-> "other", entries |-> << >>]
    /\ toEncoding = S_empty
    /\ sourceEncodingFilter = S_empty
    /\ fileFilter = S_empty
    /\ pc = [m \in Methods |-> "idle"]
    /\ mappedToEncoding = [m \in Methods |-> S_empty]
    /\ pos = [m \in Methods |-> 0]
    /\ futures = [m \in Methods |-> << >>]
    /\ jpos = [m \in Methods |-> 1]
    /\ thrown = [m \in Methods |-> "none"]
    /\ rlog = [m \in Methods |-> << >>]
    /\ files = [m \in Methods |-> << >>]
    /\ job = [m \in Methods |-> << >>]

run == << inputs, pc, mappedToEncoding, pos, futures, jpos, thrown, rlog, files, job >>

\* file names and filters handed to shouldProcessFile
N_a_txt_bak == <<"a",".","t","x","t",".","b","a","k">>
N_README    == <<"R","E","A","D","M","E">>
N_txt       == <<"t","x","t">>
N_dot_txt   == <<".","t","x","t">>
N_a_b_txt   == <<"a",".","b",".","t","x","t">>
N_A_Txt     == <<"A",".","T","x","t">>
N_a_md      == <<"a",".","m","d">>
N_a_dot     == <<"a",".">>
N_atxt      == <<"a","t","x","t">>
N_a_nl_txt  == <<"a","\n",".","t","x","t">>
N_a_cr_b_md == <<"a","\r","b",".","m","d">>
N_a_txt_nl  == <<"a",".","t","x","t","\n">>
F_txt       == <<"t","x","t">>
F_MD        == <<"M","D">>
F_md_csv    == <<"m","d","|","c","s","v">>
F_bak       == <<"b","a","k">>
F_txt_or_none == <<"t","x","t","|">>

FileNames ==
    { N_a_txt, N_B_MD, N_a_csv, N_a_txt_bak, N_README, N_txt, N_dot_txt,
      N_a_b_txt, N_A_Txt, N_a_md, N_a_dot, N_atxt, N_a_nl_txt, N_a_cr_b_md,
      N_a_txt_nl }

FilterArgs ==
    { S_empty, F_txt_md, F_txt, F_MD, F_md_csv, F_bak, F_txt_or_none, F_open }

InitFilter ==
    /\ NoRun
    /\ NoObjects
    /\ arg \in { <<n, f>> : n \in FileNames, f \in FilterArgs }
    /\ ret = NoCall

\* shouldProcessFile(fileName, filter) is called and returns or throws
CallShouldProcessFile ==
    /\ Len(arg) = 2 /\ ret = NoCall
    /\ ret' = << shouldProcessFile(arg[1], arg[2]) >>
    /\ UNCHANGED << run, objects, arg >>

NextFilter == CallShouldProcessFile

SpecFilter == InitFilter /\ [][NextFilter]_vars

\* ------------------------------------------------------------------------
\* C12: shouldProcessFile returns true for every name when the filter is
\* empty; with an alternation of literal extensions it returns true exactly
\* when the name ends with '.' followed by one of the alternatives, compared
\* without regard to case.
\* ------------------------------------------------------------------------
\* the filter is an alternation of literals
LiteralAlternation(filter) ==
    \A k \in 1..Len(filter) : filter[k] \notin {"(", ")"}

\* name ends with '.' followed by one of the alternatives, case-insensitively
EndsWithExtension(name, filter) ==
    \E alt \in Alternatives(filter) :
        /\ Len(name) >= Len(alt) + 1
        /\ name[Len(name) - Len(alt)] = "."
        /\ \A k \in 1..Len(alt) :
               tolower(name[Len(name) - Len(alt) + k]) = tolower(alt[k])

C12_ExtensionFilter ==
    (Len(arg) = 2 /\ Len(ret) = 1 /\ LiteralAlternation(arg[2])) =>
        /\ arg[2] = S_empty => ret[1] = "true"
        /\ arg[2] # S_empty =>
               /\ ret[1] \in {"true", "false"}
               /\ ret[1] = "true" <=> EndsWithExtension(arg[1], arg[2])


\* ------------------------------------------------------------------------
\* mapEncodingName called on its own, and on its own result
\* ------------------------------------------------------------------------
\* the spellings of one character that differ in case only
Cases(c) == {c} \cup { u \in DOMAIN LowerOf : LowerOf[u] = c }

\* every spelling of the lower-case name s that differs from it in case only
RECURSIVE CaseVariants(_)
CaseVariants(s) ==
    IF s = << >> THEN { << >> }
    ELSE { <<c>> \o t : c \in Cases(Head(s)), t \in CaseVariants(Tail(s)) }

S_utf_8     == <<"u","t","f","_","8">>
S_utf8sp    == <<"u","t","f","-","8"," ">>
S_gb2312    == <<"g","b","2","3","1","2">>
S_latin1    == <<"l","a","t","i","n","1">>
S_UTF16     == <<"U","T","F","-","1","6">>

UnrecognisedNames ==
    { S_foo, S_EUCJP, S_eucjp, S_utf_8, S_utf8sp, S_gb2312, S_latin1, S_UTF16,
      S_UNKNOWN, S_MISMATCH }

EncodingNames ==
    UNION { CaseVariants(a) : a \in RegistryAliases }
        \cup UnrecognisedNames \cup { S_empty }

InitMap ==
    /\ NoRun
    /\ NoObjects
    /\ arg \in { <<x>> : x \in EncodingNames }
    /\ ret = NoCall

\* mapEncodingName(encoding)
CallMapEncodingName ==
    /\ Len(arg) = 1 /\ Len(ret) = 0
    /\ ret' = << mapEncodingName(arg[1]) >>
    /\ UNCHANGED << run, objects, arg >>

\* mapEncodingName applied to the name it returned
CallMapEncodingNameAgain ==
    /\ Len(arg) = 1 /\ Len(ret) = 1
    /\ ret' = Append(ret, mapEncodingName(ret[1]))
    /\ UNCHANGED << run, objects, arg >>

NextMap == CallMapEncodingName \/ CallMapEncodingNameAgain

SpecMap == InitMap /\ [][NextMap]_vars

\* ------------------------------------------------------------------------
\* C13: mapEncodingName is idempotent on every input (case variants of the
\* aliases, unrecognised names, the empty string), and every case variant of
\* an alias is mapped to the canonical name of that alias.
\* ------------------------------------------------------------------------
CanonicalNames ==
    { S_windows1252, S_ISO88591, S_UTF8, S_GBK, S_GB18030, S_ASCII, S_Big5,
      S_UTF16LE, S_UTF16BE }

C13_MapEncodingNameIdempotent ==
    /\ Len(ret) = 2 => ret[2] = ret[1]
    /\ (Len(ret) >= 1 /\ InRegistry(arg[1])) =>
           /\ ret[1] \in CanonicalNames
           /\ ret[1] = mapEncodingName(ToLowerStr(arg[1]))
    /\ (Len(ret) >= 1 /\ ~InRegistry(arg[1])) => ret[1] = arg[1]

C13_Witness ==
    /\ arg = << <<"U","t","F","8">> >>
    /\ ret = << S_UTF8, S_UTF8 >>

\* ------------------------------------------------------------------------
\* convertEncoding called on its own: the sizes it computes with
\* ------------------------------------------------------------------------
Spread == 4

INT32_MAX == 2147483647
TwoTo29 == 536870912
TwoTo30 == 1073741824

\* input.size() of the file buffers tried: small ones and the ones around the
\* powers of two where the arithmetic changes (all below 2^31)
InputSizes ==
    (0..Spread) \cup { TwoTo29 + k : k \in (0 - Spread)..Spread }
        \cup { TwoTo30 + k : k \in (0 - Spread)..Spread }
        \cup { INT32_MAX - k : k \in 0..Spread }

\* bytes the converter produces per input byte
Expansions == 1..4

\* static_cast<int32_t>(input.size()): the value itself below 2^31
static_cast_int32(size) == size

\* (4 * x + 1) mod 2^32 read as a signed 32-bit value
Wrap32(x) ==
    LET r == x % TwoTo30
    IN  IF r < TwoTo29 THEN 4 * r + 1 ELSE 4 * (r - TwoTo30) + 1

\* static_cast<int32_t>(input.size()) * 4 + 1 in int: when the product does
\* not fit, the behaviour is undefined; the build either wraps or traps
targetCapacity(size) ==
    LET x == static_cast_int32(size) IN
    IF x < TwoTo29
    THEN { [overflow |-> FALSE, trap |-> FALSE, value |-> 4 * x + 1] }
    ELSE { [overflow |-> TRUE, trap |-> FALSE, value |-> Wrap32(x)],
           [overflow |-> TRUE, trap |-> TRUE, value |-> 0] }

\* convertEncoding from the capacity on: the buffer, the ucnv_convert call,
\* the status test and output.assign
convertEncodingSizes(size, expansion, cap) ==
    LET sourceLength == static_cast_int32(size)
        base == [overflow |-> cap.overflow, targetCapacity |-> cap.value,
                 sourceLength |-> sourceLength, convertedSize |-> 0,
                 outputSize |-> 0, throws |-> "none"]
    IN  IF cap.trap THEN [base EXCEPT !.throws = "trap"]
        ELSE IF cap.value < 0 THEN [base EXCEPT !.throws = "std::length_error"]
        ELSE IF sourceLength > cap.value \div expansion
        THEN [base EXCEPT !.throws = "ICU conversion failed"]
        ELSE [base EXCEPT !.convertedSize = expansion * sourceLength,
                          !.outputSize = expansion * sourceLength]

InitSizes ==
    /\ NoRun
    /\ NoObjects
    /\ arg \in { <<n, x>> : n \in InputSizes, x \in Expansions }
    /\ ret = NoCall

\* convertEncoding(input, from, to, output) is called and returns or throws
CallConvertEncoding ==
    /\ Len(arg) = 2 /\ ret = NoCall
    /\ \E cap \in targetCapacity(arg[1]) :
           ret' = << convertEncodingSizes(arg[1], arg[2], cap) >>
    /\ UNCHANGED << run, objects, arg >>

NextSizes == CallConvertEncoding

SpecSizes == InitSizes /\ [][NextSizes]_vars

\* ------------------------------------------------------------------------
\* C24: for every input length convertEncoding computes the capacity
\* 4 * n + 1 in 32-bit arithmetic without overflow (it is positive and at
\* least 4 * n, and the source length handed to the converter is n), and the
\* output returned has the length the converter reported.
\* ------------------------------------------------------------------------
C24_CapacityFitsInt32 ==
    ret # NoCall =>
        LET r == ret[1]
            n == arg[1]
        IN  /\ ~r.overflow
            /\ r.targetCapacity > 0
            /\ r.targetCapacity \div 4 >= n
            /\ r.sourceLength = n
            /\ r.throws = "none" => r.outputSize = r.convertedSize

\* the same statement for buffers below 2^29 bytes
C24_HoldsBelowHalfGiB ==
    (ret # NoCall /\ arg[1] < TwoTo29) =>
        LET r == ret[1]
            n == arg[1]
        IN  /\ ~r.overflow
            /\ r.targetCapacity = 4 * n + 1
            /\ r.sourceLength = n
            /\ r.throws = "none"
            /\ r.outputSize = r.convertedSize
            /\ r.outputSize = arg[2] * n

\* ------------------------------------------------------------------------
\* Timer: one Timer object, the threads that call start and stop on it, and
\* the worker threads it creates
\* ------------------------------------------------------------------------
MaxCalls == 2

Controllers == { "c1", "c2" }

\* what the task handed to start does: it returns, or it calls stop() on the
\* timer that runs it
TaskKinds == { "work", "stops" }

\* a std::thread object that owns no thread
NoThread == 0

\* every call of start creates at most one thread
Workers == 1..(2 * MaxCalls)

\* a stop that never finds a thread to join
joinable_Never(t) == FALSE

\* std::thread::joinable()
joinable(t) == t # NoThread

IdleController == [pc |-> "idle", calls |-> 0, last |-> "none", sawTask |-> FALSE]

\* Timer() : m_running(false) with a default-constructed m_thread
InitTimer ==
    /\ NoRun
    /\ arg = NoCall
    /\ ret = NoCall
    /\ drag = NoDragArea
    /\ button = NoButton
    /\ yamlConfig = NoYAMLConfig
    /\ timer \in { [m_running |-> FALSE, m_thread |-> NoThread, task |-> k,
                    worker |-> << >>,
                    ctl |-> [c \in Controllers |-> IdleController],
                    terminated |-> "none", quiet |-> FALSE] : k \in TaskKinds }

noTimer == << run, helper, drag, button, yamlConfig >>

\* the process has not been ended by std::terminate
Alive == timer.terminated = "none"

\* no call of start is between its running check and its return
NoStartInProgress(ctl) ==
    \A c \in Controllers : ctl[c].pc \notin {"start48", "start49"}

\* start, line 43: the running check; a call on a running timer returns
Start43(c) ==
    /\ Alive
    /\ timer.ctl[c].pc = "idle" /\ timer.ctl[c].calls < MaxCalls
    /\ timer' = [timer EXCEPT
           !.ctl[c] = IF timer.m_running
                      THEN [@ EXCEPT !.calls = @ + 1, !.last = "rejected"]
                      ELSE [@ EXCEPT !.calls = @ + 1, !.pc = "start48"],
           !.quiet = FALSE]
    /\ UNCHANGED noTimer

\* start, line 48: m_running = true
Start48(c) ==
    /\ Alive
    /\ timer.ctl[c].pc = "start48"
    /\ timer' = [timer EXCEPT !.m_running = TRUE, !.ctl[c].pc = "start49"]
    /\ UNCHANGED noTimer

\* start, line 49: m_thread = std::thread(...); move assignment to a
\* std::thread that is joinable calls std::terminate
Start49(c) ==
    /\ Alive
    /\ timer.ctl[c].pc = "start49"
    /\ IF joinable(timer.m_thread)
       THEN timer' = [timer EXCEPT !.terminated = "operator= on a joinable thread"]
       ELSE timer' = [timer EXCEPT
                !.worker = Append(@, [pc |-> "loop", ran |-> FALSE]),
                !.m_thread = Len(timer.worker) + 1,
                !.ctl[c] = [@ EXCEPT !.pc = "idle", !.last = "started"]]
    /\ UNCHANGED noTimer

\* stop (or ~Timer), line 26: m_running = false
Stop26(c) ==
    /\ Alive
    /\ timer.ctl[c].pc = "idle" /\ timer.ctl[c].calls < MaxCalls
    /\ timer' = [timer EXCEPT
           !.m_running = FALSE,
           !.ctl[c] = [@ EXCEPT !.calls = @ + 1, !.pc = "stop27",
                                !.sawTask = \E w \in 1..Len(timer.worker) :
                                                timer.worker[w].pc = "task"]]
    /\ UNCHANGED noTimer

\* the controller's stop has returned
Returned(c) ==
    LET ctl == [timer.ctl EXCEPT ![c] = [@ EXCEPT !.pc = "idle", !.last = "stopped"]]
    IN  [timer EXCEPT !.ctl = ctl, !.quiet = NoStartInProgress(ctl)]

\* stop, line 27: if (m_thread.joinable())
Stop27(c) ==
    /\ Alive
    /\ timer.ctl[c].pc = "stop27"
    /\ IF joinable(timer.m_thread)
       THEN timer' = [timer EXCEPT !.ctl[c].pc = "stop28"]
       ELSE timer' = Returned(c)
    /\ UNCHANGED noTimer

\* stop, line 28: m_thread.join() waits for the worker to exit; on a thread
\* that another call has joined meanwhile it throws std::system_error
Stop28(c) ==
    /\ Alive
    /\ timer.ctl[c].pc = "stop28"
    /\ IF timer.m_thread = NoThread
       THEN timer' = [timer EXCEPT !.ctl[c] = [@ EXCEPT !.pc = "idle", !.last = "threw"]]
       ELSE /\ timer.worker[timer.m_thread].pc = "exited"
            /\ timer' = [Returned(c) EXCEPT !.m_thread = NoThread]
    /\ UNCHANGED noTimer

\* worker, line 51: while (m_running)
WorkerLoop(w) ==
    /\ Alive
    /\ w <= Len(timer.worker)
    /\ timer.worker[w].pc = "loop"
    /\ timer' = [timer EXCEPT !.worker[w].pc =
                     IF timer.m_running THEN "sleep" ELSE "exited"]
    /\ UNCHANGED noTimer

\* worker, lines 52-53: sleep_until(next_time); next_time += interval
WorkerSleep(w) ==
    /\ Alive
    /\ w <= Len(timer.worker)
    /\ timer.worker[w].pc = "sleep"
    /\ timer' = [timer EXCEPT !.worker[w].pc = "test"]
    /\ UNCHANGED noTimer

\* worker, lines 55-56: if (m_running) task()
WorkerTest(w) ==
    /\ Alive
    /\ w <= Len(timer.worker)
    /\ timer.worker[w].pc = "test"
    /\ timer' = [timer EXCEPT !.worker[w] =
                     IF timer.m_running
                     THEN [pc |-> "task", ran |-> TRUE]
                     ELSE [@ EXCEPT !.pc = "loop"]]
    /\ UNCHANGED noTimer

\* the task returns to the loop
TaskReturns(w) ==
    /\ Alive
    /\ w <= Len(timer.worker)
    /\ timer.worker[w].pc = "task" /\ timer.task = "work"
    /\ timer' = [timer EXCEPT !.worker[w].pc = "loop"]
    /\ UNCHANGED noTimer

\* the task calls stop() on the worker thread, line 26
TaskStop26(w) ==
    /\ Alive
    /\ w <= Len(timer.worker)
    /\ timer.worker[w].pc = "task" /\ timer.task = "stops"
    /\ timer' = [timer EXCEPT !.m_running = FALSE, !.worker[w].pc = "stop27"]
    /\ UNCHANGED noTimer

\* that stop at line 27
TaskStop27(w) ==
    /\ Alive
    /\ w <= Len(timer.worker)
    /\ timer.worker[w].pc = "stop27"
    /\ timer' = [timer EXCEPT !.worker[w].pc =
                     IF joinable(timer.m_thread) THEN "stop28" ELSE "loop"]
    /\ UNCHANGED noTimer

\* that stop at line 28: m_thread.join() on the thread that makes the call
\* either throws std::system_error (resource_deadlock_would_occur), which
\* leaves the thread function and ends the process, or blocks for ever
TaskStop28(w) ==
    /\ Alive
    /\ w <= Len(timer.worker)
    /\ timer.worker[w].pc = "stop28"
    /\ IF timer.m_thread = w
       THEN \/ timer' = [timer EXCEPT !.terminated = "uncaught std::system_error"]
            \/ timer' = [timer EXCEPT !.worker[w].pc = "deadlock"]
       ELSE IF timer.m_thread = NoThread
       THEN timer' = [timer EXCEPT !.terminated = "uncaught std::system_error"]
       ELSE /\ timer.worker[timer.m_thread].pc = "exited"
            /\ timer' = [timer EXCEPT !.m_thread = NoThread, !.worker[w].pc = "loop"]
    /\ UNCHANGED noTimer

NextTimer ==
    \/ \E c \in Controllers :
           \/ Start43(c)
           \/ Start48(c)
           \/ Start49(c)
           \/ Stop26(c)
           \/ Stop27(c)
           \/ Stop28(c)
    \/ \E w \in Workers :
           \/ WorkerLoop(w)
           \/ WorkerSleep(w)
           \/ WorkerTest(w)
           \/ TaskReturns(w)
           \/ TaskStop26(w)
           \/ TaskStop27(w)
           \/ TaskStop28(w)

SpecTimer == InitTimer /\ [][NextTimer]_vars

\* threads created by start that have not left their thread function
LiveWorkers == { w \in 1..Len(timer.worker) : timer.worker[w].pc # "exited" }

\* ------------------------------------------------------------------------
\* C25: once a call of stop() has returned, and until a call of start is
\* made, every worker thread has exited, so the task is not running and is
\* not invoked; a task invocation that was in progress when stop() was
\* called has completed by then.
\* ------------------------------------------------------------------------
C25_StopReturnedMeansWorkerExited ==
    timer.quiet =>
        /\ LiveWorkers = {}
        /\ ~timer.m_running
        /\ timer.m_thread = NoThread

C25_Witness ==
    /\ timer.quiet
    /\ timer.task = "work"
    /\ \E c \in Controllers : timer.ctl[c].last = "stopped" /\ timer.ctl[c].sawTask
    /\ \E w \in 1..Len(timer.worker) : timer.worker[w].pc = "exited" /\ timer.worker[w].ran

\* ------------------------------------------------------------------------
\* C26: for every interleaving of start and stop calls made from several
\* threads, at most one worker thread exists, two calls of start never both
\* pass the running check, and the worker thread is never assigned twice.
\* ------------------------------------------------------------------------
C26_AtMostOneWorkerThread ==
    /\ Cardinality(LiveWorkers) <= 1
    /\ \A c, d \in Controllers :
           (timer.ctl[c].pc \in {"start48", "start49"} /\
            timer.ctl[d].pc \in {"start48", "start49"}) => c = d
    /\ timer.terminated # "operator= on a joinable thread"

\* ------------------------------------------------------------------------
\* C27: stop() returns from whichever thread it is called, the worker thread
\* running the task included: no thread ever joins itself.
\* ------------------------------------------------------------------------
C27_StopNeverJoinsItsOwnThread ==
    /\ \A w \in 1..Len(timer.worker) :
           /\ ~(timer.worker[w].pc = "stop28" /\ timer.m_thread = w)
           /\ timer.worker[w].pc # "deadlock"
    /\ timer.terminated # "uncaught std::system_error"

\* ------------------------------------------------------------------------
\* DragArea: the widget's fields, the text of its label, and its handlers
\* ------------------------------------------------------------------------
MaxLog == 2

FileSelectionMode == "FileSelectionMode"
LogOutputMode == "LogOutputMode"
DisplayMode == { FileSelectionMode, LogOutputMode }

\* QString values: sequences of characters
ZWSP == "zwsp"
P_dir  == <<"/","d">>
P_f1   == <<"/","a">>
P_f2   == <<"/","b">>
P_long == <<"/","l","o","n","g","-","p","a","t","h","2">>
T_prompt == <<"p">>
T_other  == <<"q">>
L_msg    == <<"m">>

Url(local, path, isDir) == [local |-> local, path |-> path, isDir |-> isDir]

\* event->mimeData()->urls() of the drops tried
UrlLists ==
    { << >>,
      << Url(FALSE, P_f1, FALSE) >>,
      << Url(TRUE, P_f1, FALSE) >>,
      << Url(TRUE, P_dir, TRUE) >>,
      << Url(TRUE, P_long, FALSE) >>,
      << Url(TRUE, P_f1, FALSE), Url(TRUE, P_f2, FALSE) >>,
      << Url(FALSE, P_f2, FALSE), Url(TRUE, P_f1, FALSE) >> }

\* QFileDialog::getExistingDirectory: cancelled, or a directory
DialogResults == { << >>, P_dir }
Buttons == { "LeftButton", "RightButton" }
Logs == { << >>, L_msg }

\* insertZeroWidthSpaces(text, maxSegmentLength)
RECURSIVE insertZeroWidthSpacesFrom(_, _, _, _)
insertZeroWidthSpacesFrom(text, maxSegmentLength, i, count) ==
    IF i > Len(text) THEN << >>
    ELSE IF count + 1 >= maxSegmentLength
    THEN <<text[i], ZWSP>> \o insertZeroWidthSpacesFrom(text, maxSegmentLength, i + 1, 0)
    ELSE <<text[i]>> \o insertZeroWidthSpacesFrom(text, maxSegmentLength, i + 1, count + 1)

insertZeroWidthSpaces(text, maxSegmentLength) ==
    insertZeroWidthSpacesFrom(text, maxSegmentLength, 1, 0)

\* QStringList::join("\n")
RECURSIVE join(_)
join(paths) ==
    IF paths = << >> THEN << >>
    ELSE IF Len(paths) = 1 THEN paths[1]
    ELSE paths[1] \o <<"\n">> \o join(Tail(paths))

\* the local files among the urls, in order
RECURSIVE toLocalFiles(_)
toLocalFiles(urls) ==
    IF urls = << >> THEN << >>
    ELSE (IF urls[1].local THEN <<urls[1].path>> ELSE << >>) \o toLocalFiles(Tail(urls))

\* QFileInfo(paths.first()).isDir()
isDir(urls, path) == \E k \in 1..Len(urls) : urls[k].local /\ urls[k].path = path /\ urls[k].isDir

\* updateStyles, without the font and icon sizes
updateStyles(d) ==
    IF d.currentMode = FileSelectionMode THEN
        IF d.showingPrompt
        THEN [d EXCEPT !.iconShown = FALSE, !.vpolicy = "AlwaysOff"]
        ELSE IF d.singleFileMode
        THEN [d EXCEPT !.vpolicy = "AlwaysOff"]
        ELSE [d EXCEPT !.vpolicy = "AsNeeded"]
    ELSE [d EXCEPT !.iconShown = FALSE, !.vpolicy = "AsNeeded"]

showPrompt(d) ==
    IF d.currentMode # FileSelectionMode THEN d
    ELSE updateStyles([d EXCEPT !.iconShown = FALSE, !.icon = "none",
                                !.text = d.promptText, !.vpolicy = "AlwaysOff",
                                !.showingPrompt = TRUE, !.singleFileMode = FALSE])

setDisplayMode(d0, mode) ==
    LET d == [d0 EXCEPT !.currentMode = mode] IN
    IF mode = FileSelectionMode
    THEN updateStyles([showPrompt(d) EXCEPT !.showingPrompt = TRUE,
                                            !.singleFileMode = FALSE])
    ELSE updateStyles([d EXCEPT !.iconShown = FALSE, !.text = << >>,
                                !.vpolicy = "AsNeeded", !.showingPrompt = FALSE,
                                !.singleFileMode = FALSE])

setPromptText(d, str) ==
    IF d.currentMode = FileSelectionMode /\ d.showingPrompt
    THEN [d EXCEPT !.promptText = str, !.text = str]
    ELSE [d EXCEPT !.promptText = str]

clearDisplay(d0) ==
    LET d == [d0 EXCEPT !.filePaths = << >>] IN
    IF d.currentMode = FileSelectionMode
    THEN updateStyles([showPrompt(d) EXCEPT !.showingPrompt = TRUE,
                                            !.singleFileMode = FALSE])
    ELSE updateStyles([d EXCEPT !.text = << >>])

\* an appendLog that does not look at the mode
appendLog_AnyMode(d, log) ==
    [d EXCEPT !.text = (IF d.text # << >> THEN d.text \o <<"\n">> ELSE d.text) \o log,
              !.pendingScrolls = @ + 1]

\* appendLog with the scroll it schedules through QTimer::singleShot
appendLog(d, log) ==
    IF d.currentMode # LogOutputMode THEN d
    ELSE [d EXCEPT !.text = (IF d.text # << >> THEN d.text \o <<"\n">> ELSE d.text) \o log,
                   !.pendingScrolls = @ + 1]

\* showFileIcon / showFolderIcon
showIcon(d, paths, icon) ==
    [d EXCEPT !.iconShown = TRUE, !.icon = icon,
              !.text = IF Len(paths) = 1 THEN insertZeroWidthSpaces(paths[1], 10)
                       ELSE join(paths)]

updateDisplay(d, paths, dir) ==
    IF d.currentMode # FileSelectionMode THEN d
    ELSE LET d1 == [d EXCEPT !.showingPrompt = FALSE,
                             !.singleFileMode = (Len(paths) = 1)]
             d2 == showIcon(d1, paths, IF dir THEN "folder" ELSE "file")
         IN  updateStyles([d2 EXCEPT !.vpolicy = IF Len(paths) = 1 THEN "AlwaysOff"
                                                  ELSE "AsNeeded"])

dragEnterEvent(d, hasUrls) ==
    IF d.currentMode # FileSelectionMode THEN [d EXCEPT !.event = "ignored"]
    ELSE IF hasUrls THEN [d EXCEPT !.event = "accepted"]
    ELSE [d EXCEPT !.event = "ignored"]

dropEvent(d, urls) ==
    IF d.currentMode # FileSelectionMode THEN [d EXCEPT !.event = "ignored"]
    ELSE IF urls = << >> THEN [d EXCEPT !.event = "untouched"]
    ELSE LET paths == toLocalFiles(urls) IN
         IF paths = << >> THEN [d EXCEPT !.filePaths = << >>, !.event = "untouched"]
         ELSE [updateDisplay([d EXCEPT !.filePaths = paths], paths, isDir(urls, paths[1]))
                  EXCEPT !.event = "accepted"]

\* the left click of mousePressEvent and of eventFilter
chooseDirectory(d, dir) ==
    IF dir # << >>
    THEN updateDisplay([d EXCEPT !.filePaths = <<dir>>], <<dir>>, TRUE)
    ELSE d

mousePressEvent(d, b, dir) ==
    IF d.currentMode = FileSelectionMode /\ b = "LeftButton"
    THEN [chooseDirectory(d, dir) EXCEPT !.event = "untouched"]
    ELSE [d EXCEPT !.event = "ignored"]

\* eventFilter for a MouseButtonPress on textLabel
eventFilter(d, b, dir) ==
    IF d.currentMode = FileSelectionMode /\ b = "LeftButton"
    THEN [chooseDirectory(d, dir) EXCEPT !.event = "filtered"]
    ELSE [d EXCEPT !.event = "passed on"]

\* the members of the widget and what its two labels and scroll area show
Fields ==
    { "currentMode", "showingPrompt", "singleFileMode", "filePaths", "promptText",
      "text", "iconShown", "icon", "vpolicy", "pendingScrolls", "event" }

\* what a handler found when it was called
Before(d) == [f \in Fields |-> d[f]]

\* the state after the constructor
InitDragArea ==
    /\ NoRun
    /\ arg = NoCall
    /\ ret = NoCall
    /\ timer = NoTimer
    /\ button = NoButton
    /\ yamlConfig = NoYAMLConfig
    /\ drag = [currentMode |-> FileSelectionMode, showingPrompt |-> TRUE,
               singleFileMode |-> FALSE, filePaths |-> << >>,
               promptText |-> T_prompt, text |-> T_prompt,
               iconShown |-> FALSE, icon |-> "none", vpolicy |-> "AlwaysOff",
               pendingScrolls |-> 0, appends |-> 0, event |-> "none",
               op |-> "DragArea", before |-> << >>]

noDragArea == << run, helper, timer, button, yamlConfig >>

\* the widget as handler op leaves it, with what the handler found
After(op, d) == [d EXCEPT !.op = op, !.before = Before(drag)]

SetDisplayMode ==
    /\ \E mode \in DisplayMode :
           drag' = After("setDisplayMode", setDisplayMode(drag, mode))
    /\ UNCHANGED noDragArea

SetPromptText ==
    /\ \E str \in { T_prompt, T_other } :
           drag' = After("setPromptText", setPromptText(drag, str))
    /\ UNCHANGED noDragArea

ClearDisplay ==
    /\ drag' = After("clearDisplay", clearDisplay(drag))
    /\ UNCHANGED noDragArea

AppendLog ==
    /\ drag.appends < MaxLog
    /\ \E log \in Logs :
           drag' = After("appendLog", [appendLog(drag, log) EXCEPT !.appends = @ + 1])
    /\ UNCHANGED noDragArea

\* the lambda of QTimer::singleShot(0, ...): scroll to the bottom
ScrollToBottom ==
    /\ drag.pendingScrolls > 0
    /\ drag' = After("singleShot", [drag EXCEPT !.pendingScrolls = @ - 1])
    /\ UNCHANGED noDragArea

DragEnterEvent ==
    /\ \E hasUrls \in BOOLEAN :
           drag' = After("dragEnterEvent", dragEnterEvent(drag, hasUrls))
    /\ UNCHANGED noDragArea

DropEvent ==
    /\ \E urls \in UrlLists : drag' = After("dropEvent", dropEvent(drag, urls))
    /\ UNCHANGED noDragArea

MousePressEvent ==
    /\ \E b \in Buttons, dir \in DialogResults :
           drag' = After("mousePressEvent", mousePressEvent(drag, b, dir))
    /\ UNCHANGED noDragArea

EventFilter ==
    /\ \E b \in Buttons, dir \in DialogResults :
           drag' = After("eventFilter", eventFilter(drag, b, dir))
    /\ UNCHANGED noDragArea

ResizeEvent ==
    /\ drag' = After("resizeEvent", updateStyles(drag))
    /\ UNCHANGED noDragArea

NextDragArea ==
    \/ SetDisplayMode
    \/ SetPromptText
    \/ ClearDisplay
    \/ AppendLog
    \/ ScrollToBottom
    \/ DragEnterEvent
    \/ DropEvent
    \/ MousePressEvent
    \/ EventFilter
    \/ ResizeEvent

SpecDragArea == InitDragArea /\ [][NextDragArea]_vars

\* ------------------------------------------------------------------------
\* C28: in FileSelectionMode the prompt is shown exactly when the file path
\* list is empty, after any sequence of drops, clicks, clearDisplay and
\* setDisplayMode calls.
\* ------------------------------------------------------------------------
C28_PromptIffNoFilePaths ==
    drag.currentMode = FileSelectionMode =>
        (drag.showingPrompt <=> drag.filePaths = << >>)

\* ------------------------------------------------------------------------
\* C29: appendLog leaves the widget as it was in FileSelectionMode and
\* changes the text only in LogOutputMode; in LogOutputMode a drag-enter, a
\* drop and a mouse press are ignored and change neither the file path list
\* nor the displayed log.
\* ------------------------------------------------------------------------
InputEvents == { "dragEnterEvent", "dropEvent", "mousePressEvent" }

C29_LogAndInputFrames ==
    /\ (drag.op = "appendLog" /\ drag.before.currentMode = FileSelectionMode) =>
           \A f \in Fields : drag[f] = drag.before[f]
    /\ (drag.op = "appendLog" /\ drag.text # drag.before.text) =>
           drag.before.currentMode = LogOutputMode
    /\ (drag.op \in InputEvents /\ drag.before.currentMode = LogOutputMode) =>
           /\ drag.event = "ignored"
           /\ drag.text = drag.before.text
           /\ drag.filePaths = drag.before.filePaths
           /\ drag.currentMode = LogOutputMode

C29_Witness ==
    /\ drag.op = "dropEvent"
    /\ drag.before.currentMode = LogOutputMode
    /\ drag.text = L_msg \o <<"\n">> \o L_msg
    /\ drag.filePaths # << >>

\* ------------------------------------------------------------------------
\* AnimatedPushButton: its flags, the animations it has started and the
\* events it handles
\* ------------------------------------------------------------------------
MaxEvents == 4

\* the QPropertyAnimation objects the button creates
Kinds == { "hover", "reset", "resetShadow", "click", "release" }

\* geometry() as the number of times the constructed rectangle has been
\* enlarged by startRect.adjusted(...)
endRect(startRect) == startRect + 1

MouseButtons == { "LeftButton", "RightButton" }

\* the state after the constructor; the mouse is outside the button
InitButton ==
    /\ NoRun
    /\ arg = NoCall
    /\ ret = NoCall
    /\ timer = NoTimer
    /\ drag = NoDragArea
    /\ yamlConfig = NoYAMLConfig
    /\ button = [hoverEnabled |-> TRUE, clickEnabled |-> TRUE, resetEnabled |-> TRUE,
                 isResetting |-> FALSE, shadowEnabled |-> FALSE,
                 initialGeometry |-> 0, geometry |-> 0,
                 hoverAnimation |-> "nullptr", hoverEndValue |-> 0,
                 resetEndValue |-> 0,
                 running |-> [k \in Kinds |-> 0],
                 underMouse |-> FALSE, down |-> FALSE, events |-> 0,
                 op |-> "AnimatedPushButton", started |-> {},
                 before |-> [hoverEnabled |-> TRUE, clickEnabled |-> TRUE,
                             isResetting |-> FALSE]]

noButton == << run, helper, timer, drag, yamlConfig >>

startHoverAnimation(b) ==
    IF b.isResetting THEN b
    ELSE [b EXCEPT !.hoverAnimation = "running",
                   !.hoverEndValue = endRect(b.initialGeometry),
                   !.running["hover"] = @ + 1,
                   !.started = @ \cup {"hover"}]

\* startResetAnimation; hoverAnimation->stop() leaves the geometry where the
\* hover animation had brought it: g is a value between its start and end
startResetAnimation(b, g) ==
    IF b.isResetting THEN b
    ELSE LET stopped == b.hoverAnimation = "running" IN
         [b EXCEPT !.isResetting = TRUE,
                   !.hoverAnimation = IF stopped THEN "stopped" ELSE @,
                   !.running["hover"] = IF stopped THEN @ - 1 ELSE @,
                   !.geometry = IF stopped THEN g ELSE @,
                   !.resetEndValue = b.initialGeometry,
                   !.running["reset"] = @ + 1,
                   !.running["resetShadow"] = @ + 1,
                   !.started = @ \cup {"reset", "resetShadow"}]

startClickAnimation(b) ==
    [b EXCEPT !.shadowEnabled = TRUE, !.running["click"] = @ + 1,
              !.started = @ \cup {"click"}]

startReleaseAnimation(b) ==
    [b EXCEPT !.running["release"] = @ + 1, !.started = @ \cup {"release"}]

\* the button as handler op finds it
Entering(op) ==
    [button EXCEPT !.op = op, !.started = {},
                   !.before = [hoverEnabled |-> button.hoverEnabled,
                               clickEnabled |-> button.clickEnabled,
                               isResetting |-> button.isResetting]]

\* an event is delivered
Event(op) == [Entering(op) EXCEPT !.events = @ + 1]

SetHoverAnimation ==
    /\ \E enabled \in BOOLEAN :
           button' = [Entering("setHoverAnimation") EXCEPT !.hoverEnabled = enabled]
    /\ UNCHANGED noButton

SetClickAnimation ==
    /\ \E enabled \in BOOLEAN :
           button' = [Entering("setClickAnimation") EXCEPT !.clickEnabled = enabled]
    /\ UNCHANGED noButton

SetResetAnimation ==
    /\ button' = [Entering("setResetAnimation") EXCEPT !.resetEnabled = TRUE]
    /\ UNCHANGED noButton

EnterEvent ==
    /\ button.events < MaxEvents /\ ~button.underMouse
    /\ LET b == [Event("enterEvent") EXCEPT !.underMouse = TRUE]
           b1 == IF ~b.isResetting THEN [b EXCEPT !.initialGeometry = b.geometry] ELSE b
       IN  button' = startHoverAnimation(b1)
    /\ UNCHANGED noButton

LeaveEvent ==
    /\ button.events < MaxEvents /\ button.underMouse
    /\ LET b == [Event("leaveEvent") EXCEPT !.underMouse = FALSE] IN
       \E g \in { b.geometry, b.hoverEndValue } :
           button' = IF b.resetEnabled THEN startResetAnimation(b, g) ELSE b
    /\ UNCHANGED noButton

MousePress ==
    /\ button.events < MaxEvents /\ button.underMouse /\ ~button.down
    /\ \E mb \in MouseButtons :
           LET b == Event("mousePressEvent") IN
           button' = IF mb # "LeftButton" THEN b
                     ELSE IF b.clickEnabled /\ ~b.isResetting
                     THEN startClickAnimation([b EXCEPT !.down = TRUE])
                     ELSE [b EXCEPT !.down = TRUE]
    /\ UNCHANGED noButton

MouseRelease ==
    /\ button.events < MaxEvents /\ button.down
    /\ LET b == [Event("mouseReleaseEvent") EXCEPT !.down = FALSE] IN
       button' = IF b.clickEnabled /\ ~b.isResetting
                 THEN startReleaseAnimation(b) ELSE b
    /\ UNCHANGED noButton

\* an animation of kind k reaches its end value
Finish(k) == [Entering("finished") EXCEPT !.running[k] = @ - 1]

HoverFinished ==
    /\ button.running["hover"] > 0
    /\ button' = [Finish("hover") EXCEPT !.hoverAnimation = "finished",
                                         !.geometry = button.hoverEndValue]
    /\ UNCHANGED noButton

ResetFinished ==
    /\ button.running["reset"] > 0
    /\ button' = [Finish("reset") EXCEPT !.geometry = button.resetEndValue]
    /\ UNCHANGED noButton

\* the lambda connected to resetShadowEffect's finished signal
ResetShadowFinished ==
    /\ button.running["resetShadow"] > 0
    /\ button' = [Finish("resetShadow") EXCEPT !.shadowEnabled = FALSE,
                                               !.isResetting = FALSE]
    /\ UNCHANGED noButton

ClickFinished ==
    /\ button.running["click"] > 0
    /\ button' = Finish("click")
    /\ UNCHANGED noButton

\* the lambda connected to releaseAnimation's finished signal
ReleaseFinished ==
    /\ button.running["release"] > 0
    /\ button' = [Finish("release") EXCEPT !.shadowEnabled = FALSE]
    /\ UNCHANGED noButton

NextButton ==
    \/ SetHoverAnimation
    \/ SetClickAnimation
    \/ SetResetAnimation
    \/ EnterEvent
    \/ LeaveEvent
    \/ MousePress
    \/ MouseRelease
    \/ HoverFinished
    \/ ResetFinished
    \/ ResetShadowFinished
    \/ ClickFinished
    \/ ReleaseFinished

SpecButton == InitButton /\ [][NextButton]_vars

\* ------------------------------------------------------------------------
\* C30: with hoverEnabled false an enter event starts no hover animation,
\* with clickEnabled false a press or a release starts no glow animation,
\* and while isResetting is set no hover and no click animation is started.
\* ------------------------------------------------------------------------
Glow == { "click", "release" }

C30_EnabledFlagsHonoured ==
    /\ (button.op = "enterEvent" /\ ~button.before.hoverEnabled) =>
           "hover" \notin button.started
    /\ (button.op \in {"mousePressEvent", "mouseReleaseEvent"}
            /\ ~button.before.clickEnabled) =>
           button.started \cap Glow = {}
    /\ button.before.isResetting =>
           button.started \cap ({"hover"} \cup Glow) = {}

\* the same statement without the hover flag
C30_ClickFlagAndResetHonoured ==
    /\ (button.op \in {"mousePressEvent", "mouseReleaseEvent"}
            /\ ~button.before.clickEnabled) =>
           button.started \cap Glow = {}
    /\ button.before.isResetting =>
           button.started \cap ({"hover"} \cup Glow) = {}

--------------------------------------------------------------------------
\* YAMLConfig: the node config_ held in memory and the file filename_
\* names.  Every public method holds mutex_ from its first statement to its
\* return, so each call is one step.  The file system may change whether
\* the file can be opened for writing between two calls.

Keys == {"host", "port"}
Scalars == {"x", "y"}
Undefined == "undefined"

\* a YAML::Node holding a map: Undefined under a key the map does not have
Nodes == [Keys -> Scalars \cup {Undefined}]
\* YAML::Node()
EmptyNode == [k \in Keys |-> Undefined]

Missing == "missing"
Malformed == "malformed"
Document == "document"
\* a file holding the YAML text of node n
FileOf(n) == [state |-> Document, node |-> n]
\* what may stand on disk under filename_
FileContents == { FileOf(n) : n \in Nodes } \cup
                { [state |-> st, node |-> EmptyNode] : st \in {Missing, Malformed} }

KeyNotFound == "runtime_error: Key not found in config file."
ErrorOpening == "runtime_error: Error opening file for writing"

\* load: LoadFile throws a YAML::Exception on a file that is absent or does
\* not parse, and config_ is then a fresh node
load(content) ==
    IF content.state \in {Missing, Malformed} THEN EmptyNode ELSE content.node

\* read<std::string>: its exception and its return value
read(config_, key) ==
    IF config_[key] = Undefined
    THEN [thrown |-> KeyNotFound, value |-> Undefined]
    ELSE [thrown |-> "none", value |-> config_[key]]

\* save: the stream truncates the file when it opens it and then receives
\* the whole node
save(y) ==
    IF ~y.openable
    THEN [y EXCEPT !.thrown = ErrorOpening]
    ELSE [y EXCEPT !.file = FileOf(y.config_), !.thrown = "none"]

\* write: the assignment to config_[key] comes first, then save
write(y, key, value) ==
    save([y EXCEPT !.config_[key] = value])

InitYAMLConfig ==
    /\ NoRun
    /\ arg = NoCall
    /\ ret = NoCall
    /\ timer = NoTimer
    /\ drag = NoDragArea
    /\ button = NoButton
    /\ \E content \in FileContents, o \in BOOLEAN :
           yamlConfig = [config_ |-> load(content), file |-> content,
                         openable |-> o,
                         op |-> "YAMLConfig", key |-> "", thrown |-> "none",
                         value |-> Undefined,
                         before |-> load(content), saved |-> load(content)]

noYAMLConfig == << run, helper, timer, drag, button >>

\* a call of read<std::string>(key)
Read ==
    /\ \E key \in Keys :
           yamlConfig' = [yamlConfig EXCEPT
                             !.op = "read", !.key = key,
                             !.thrown = read(yamlConfig.config_, key).thrown,
                             !.value = read(yamlConfig.config_, key).value,
                             !.before = yamlConfig.config_]
    /\ UNCHANGED noYAMLConfig

\* a call of write(key, value); saved is config_ as the last call that did
\* not fail left it
Write ==
    /\ \E key \in Keys, value \in Scalars :
           LET y == write(yamlConfig, key, value)
           IN  yamlConfig' = [y EXCEPT
                                 !.op = "write", !.key = key,
                                 !.value = Undefined,
                                 !.before = yamlConfig.config_,
                                 !.saved = IF y.thrown = "none" THEN y.config_
                                           ELSE yamlConfig.saved]
    /\ UNCHANGED noYAMLConfig

\* the file system: the file or its directory gains or loses write access
SetWritable ==
    /\ \E o \in BOOLEAN \ {yamlConfig.openable} :
           yamlConfig' = [yamlConfig EXCEPT !.openable = o, !.op = "chmod",
                                            !.before = yamlConfig.config_]
    /\ UNCHANGED noYAMLConfig

NextYAMLConfig ==
    \/ Read
    \/ Write
    \/ SetWritable

SpecYAMLConfig == InitYAMLConfig /\ [][NextYAMLConfig]_vars

\* config_ holds what loading the file now would give
InSync == yamlConfig.config_ = load(yamlConfig.file)

\* C31: a write that fails because the file cannot be opened leaves config_
\* as it was, so a read that follows returns for every key the value (or
\* the "not found" error) it returned before the failed write, and config_
\* never differs from what the file on disk holds.
C31_FailedWriteLeavesConfigUnchanged ==
    /\ (yamlConfig.op = "write" /\ yamlConfig.thrown = ErrorOpening) =>
           yamlConfig.config_ = yamlConfig.before
    /\ yamlConfig.op = "read" =>
           read(yamlConfig.saved, yamlConfig.key) =
               [thrown |-> yamlConfig.thrown, value |-> yamlConfig.value]
    /\ InSync

\* the part of C31 the code keeps: a write that cannot open the file raises
\* the error and leaves the file as it was, and a write that can open it
\* leaves config_ and the file equal
C31_FailedWriteRaisesAndKeepsFile ==
    yamlConfig.op = "write" =>
        IF yamlConfig.openable
        THEN yamlConfig.thrown = "none" /\ yamlConfig.file = FileOf(yamlConfig.config_)
        ELSE /\ yamlConfig.thrown = ErrorOpening
             /\ load(yamlConfig.file) = yamlConfig.saved
             /\ yamlConfig.config_[yamlConfig.key] # Undefined

====
